---------------------------- MODULE Spec2Model ----------------------------
(***************************************************************************)
(* Model of boilcheck-psql: the Scope symbol table and the SQL semantic    *)
(* checker (checkCalls / checkSelect / typeCheck).                         *)
(*                                                                         *)
(* Conventions.                                                            *)
(*  - Identifiers (schema, table, column, alias names) are TLA+ strings;   *)
(*    the code only compares them and tests them for emptiness.  A Go nil  *)
(*    *string is modelled as "".                                            *)
(*  - Strings the code takes apart (driver types, import paths, argument   *)
(*    types) are sequences of tokens: a token is one of the separators     *)
(*    ".", "/", "\"" or a maximal run of other characters, so equality of   *)
(*    token sequences is equality of the strings.                          *)
(*  - A Go pointer to a column is a record [isNil, v].                     *)
(*  - The parse tree (produced by the external PostgreSQL parser) is a     *)
(*    tree of records, each with a "kind" field; a nil node has kind Nil.  *)
(***************************************************************************)
EXTENDS Integers, Sequences, FiniteSets, TLC

\* ------------------------------------------------------------------------
\* Program constants

\* Kind of an IdentErr
Unknown == 0
Ambiguous == 1

\* Return codes of Scope.get / Scope.has
scopeRetOk == 0
scopeRetAmbiguous == 1
scopeRetUnknown == 2

\* ------------------------------------------------------------------------
\* Bounds of the model

\* Scope component: deepest table stack and output-name stack explored
MaxTables == 2
MaxOutputNames == 1

\* Checker: most arguments a call site passes after the SQL argument
MaxArgs == 1

\* ------------------------------------------------------------------------
\* Go slice helpers

\* s[:len(s)-1]
DropLast(s) == SubSeq(s, 1, Len(s) - 1)

\* make([]T, n) followed by copy(dst, src): the first min(len) elements are
\* copied, the rest keep the zero value
MakeCopy(n, src, zero) == [i \in 1..n |-> IF i <= Len(src) THEN src[i] ELSE zero]

\* A range loop that stops at the first element passing its test: hits[i]
\* is the test on element i; the index it stops at, 0 when it runs to the end
FirstIndex(hits) ==
    IF \E i \in 1..Len(hits) : hits[i]
    THEN CHOOSE i \in 1..Len(hits) : hits[i] /\ \A j \in 1..(i-1) : ~hits[j]
    ELSE 0

\* ------------------------------------------------------------------------
\* Catalog (drivers.DBInfo, drivers.Table, drivers.Column)

Column(name, type, dbtype) == [Name |-> name, Type |-> type, DBType |-> dbtype]
ZeroColumn == Column("", <<>>, "")
Table(schema, name, cols) == [SchemaName |-> schema, Name |-> name, Columns |-> cols]
ZeroTable == Table("", "", <<>>)

\* Pointers to columns
NilCol == [isNil |-> TRUE, v |-> ZeroColumn]
PtrCol(c) == [isNil |-> FALSE, v |-> c]

\* ------------------------------------------------------------------------
\* Scope

ZeroOutputColRef == [name |-> "", col |-> NilCol]

NewScope(info) ==
    [info |-> info, tables |-> <<>>, aliases |-> <<>>, outputNames |-> <<>>]

\* A deliberately wrong variant of clone: the copy starts empty
cloneEmpty(s) == NewScope(s.info)

clone(s) ==
    [info |-> s.info,
     tables |-> MakeCopy(Len(s.tables), s.tables, ZeroTable),
     aliases |-> MakeCopy(Len(s.aliases), s.aliases, ""),
     outputNames |-> MakeCopy(Len(s.outputNames), s.outputNames, ZeroOutputColRef)]

\* Index in info.Tables of the table pushTable finds, 0 when there is none
pushTableIndex(info, schema, table) ==
    FirstIndex([i \in 1..Len(info.Tables) |->
                   /\ schema = "" \/ info.Tables[i].SchemaName = schema
                   /\ info.Tables[i].Name = table])

\* A deliberately wrong variant: the alias is appended before the catalog is searched
pushTableAliasFirst(s, schema, table, alias) ==
    LET i == pushTableIndex(s.info, schema, table)
    IN IF i # 0
       THEN [ok |-> TRUE,
             scope |-> [s EXCEPT !.aliases = Append(@, alias),
                                 !.tables = Append(@, s.info.Tables[i])]]
       ELSE [ok |-> FALSE, scope |-> [s EXCEPT !.aliases = Append(@, alias)]]

\* Returns [ok, scope]: ok is the Go return value, scope the receiver after
pushTable(s, schema, table, alias) ==
    LET i == pushTableIndex(s.info, schema, table)
    IN IF i # 0
       THEN [ok |-> TRUE,
             scope |-> [s EXCEPT !.aliases = Append(@, alias),
                                 !.tables = Append(@, s.info.Tables[i])]]
       ELSE [ok |-> FALSE, scope |-> s]

pushPseudoTable(s, alias, data) ==
    [s EXCEPT !.aliases = Append(@, alias), !.tables = Append(@, data)]

popTable(s) ==
    [s EXCEPT !.aliases = DropLast(@), !.tables = DropLast(@)]

pushOutputName(s, name, col) ==
    [s EXCEPT !.outputNames = Append(@, [name |-> name, col |-> col])]

popOutputName(s) ==
    [s EXCEPT !.outputNames = DropLast(@)]

\* The table-qualified branch of Scope.get: one pass over the stack, an
\* entry is taken when its alias matches, or else when its (schema,) name
\* matches
getInScopeIndex(s, schema, table) ==
    FirstIndex([i \in 1..Len(s.tables) |->
                   \/ s.aliases[i] = table
                   \/ /\ ~(schema # "" /\ s.tables[i].SchemaName # schema)
                      /\ s.tables[i].Name = table])

\* First column of table t named column, as a pointer
firstColumn(t, column) ==
    LET i == FirstIndex([k \in 1..Len(t.Columns) |-> t.Columns[k].Name = column])
    IN IF i = 0 THEN NilCol ELSE PtrCol(t.Columns[i])

\* All columns of the in-scope tables in iteration order (table by table)
RECURSIVE allColumns(_)
allColumns(tables) ==
    IF tables = <<>> THEN <<>>
    ELSE tables[1].Columns \o allColumns(Tail(tables))

\* The unqualified branch of Scope.get
getUnqualified(s, column) ==
    LET cols == allColumns(s.tables)
        hits == {i \in 1..Len(cols) : cols[i].Name = column}
        o == FirstIndex([k \in 1..Len(s.outputNames) |->
                            s.outputNames[k].name = column])
    IN IF Cardinality(hits) >= 2
       THEN [col |-> NilCol, ret |-> scopeRetAmbiguous]
       ELSE IF o # 0
       THEN [col |-> s.outputNames[o].col, ret |-> scopeRetOk]
       ELSE IF hits # {}
       THEN [col |-> PtrCol(cols[CHOOSE i \in hits : TRUE]), ret |-> scopeRetOk]
       ELSE [col |-> NilCol, ret |-> scopeRetUnknown]

\* A deliberately wrong variant: a second column of the same name in the matched table is
\* reported as ambiguous
getDupAmbiguous(s, schema, table, column) ==
    IF table # ""
    THEN LET i == getInScopeIndex(s, schema, table)
         IN IF i = 0 THEN [col |-> NilCol, ret |-> scopeRetUnknown]
            ELSE LET n == Cardinality({k \in 1..Len(s.tables[i].Columns) :
                                          s.tables[i].Columns[k].Name = column})
                 IN IF n >= 2 THEN [col |-> NilCol, ret |-> scopeRetAmbiguous]
                    ELSE IF n = 1
                    THEN [col |-> firstColumn(s.tables[i], column), ret |-> scopeRetOk]
                    ELSE [col |-> NilCol, ret |-> scopeRetUnknown]
    ELSE getUnqualified(s, column)

\* Scope.get: returns [col, ret]
get(s, schema, table, column) ==
    IF table # ""
    THEN LET i == getInScopeIndex(s, schema, table)
         IN IF i = 0 THEN [col |-> NilCol, ret |-> scopeRetUnknown]
            ELSE LET c == firstColumn(s.tables[i], column)
                 IN IF c.isNil THEN [col |-> NilCol, ret |-> scopeRetUnknown]
                    ELSE [col |-> c, ret |-> scopeRetOk]
    ELSE getUnqualified(s, column)

has(s, schema, table, column) == get(s, schema, table, column).ret

\* ------------------------------------------------------------------------
\* String helpers on token sequences (strings, path)

\* strings.Split(s, sep) for a one-character separator
RECURSIVE Split(_, _)
Split(s, sep) ==
    LET i == FirstIndex([k \in 1..Len(s) |-> s[k] = sep])
    IN IF i = 0 THEN <<s>>
       ELSE <<SubSeq(s, 1, i - 1)>> \o Split(SubSeq(s, i + 1, Len(s)), sep)

\* strings.Trim(s, cut) for a one-character cutset
RECURSIVE TrimLeft(_, _), TrimRight(_, _)
TrimLeft(s, cut) ==
    IF s # <<>> /\ Head(s) = cut THEN TrimLeft(Tail(s), cut) ELSE s
TrimRight(s, cut) ==
    IF s # <<>> /\ s[Len(s)] = cut THEN TrimRight(DropLast(s), cut) ELSE s
Trim(s, cut) == TrimRight(TrimLeft(s, cut), cut)

\* Index of the last "/" of p, 0 when there is none
LastSlash(p) ==
    IF \E i \in 1..Len(p) : p[i] = "/"
    THEN CHOOSE i \in 1..Len(p) : p[i] = "/" /\ \A j \in (i+1)..Len(p) : p[j] # "/"
    ELSE 0

\* path.Base
pathBase(p) ==
    IF p = <<>> THEN <<".">>
    ELSE LET q == TrimRight(p, "/")
         IN IF q = <<>> THEN <<"/">>
            ELSE SubSeq(q, LastSlash(q) + 1, Len(q))

\* path.Dir, for paths that are already clean (no empty, "." or ".."
\* elements), which Go import paths are
pathDir(p) ==
    LET i == LastSlash(p)
    IN IF i = 0 THEN <<".">>
       ELSE IF i = 1 THEN <<"/">>
       ELSE SubSeq(p, 1, i - 1)

\* path.Join of two clean elements
pathJoin(a, b) ==
    IF a = <<>> THEN b
    ELSE IF b = <<>> THEN a
    ELSE IF a = <<".">> THEN b
    ELSE IF a = <<"/">> THEN a \o b
    ELSE a \o <<"/">> \o b

\* ------------------------------------------------------------------------
\* State (DBInfo and the driver's imports) and Call

ZeroSet == [Standard |-> <<>>, ThirdParty |-> <<>>]

\* s.Imports.BasedOnType[t]: a missing key yields the zero Set
BasedOnType(s, t) ==
    IF t \in DOMAIN s.Imports THEN s.Imports[t] ELSE ZeroSet

\* ------------------------------------------------------------------------
\* Diagnostics

IdentErr(kind, schema, table, column, location, fn) ==
    [type |-> "IdentErr", Kind |-> kind, Schema |-> schema, Table |-> table,
     Column |-> column, Location |-> location, Fn |-> fn]

TypeErr(schema, table, column, callType, driverType, dbType, parameter, location, fn) ==
    [type |-> "TypeErr", Schema |-> schema, Table |-> table, Column |-> column,
     CallType |-> callType, DriverType |-> driverType, DBType |-> dbType,
     Parameter |-> parameter, Location |-> location, Fn |-> fn]

ParseError(fn) == [type |-> "ParseError", Fn |-> fn]

\* fmt.Errorf("failed to lookup package for driver type: %s", col.Type)
LookupErr(driverType) ==
    [type |-> "error", msg |-> "failed to lookup package for driver type",
     DriverType |-> driverType]

\* ------------------------------------------------------------------------
\* Parse tree nodes (pg_query_go/nodes)

Nil == [kind |-> "Nil"]
String(s) == [kind |-> "String", Str |-> s]
A_Star == [kind |-> "A_Star"]
A_Const == [kind |-> "A_Const"]
ColumnRef(fields, loc) == [kind |-> "ColumnRef", Fields |-> fields, Location |-> loc]
ParamRef(n, loc) == [kind |-> "ParamRef", Number |-> n, Location |-> loc]
A_Expr(l, r) == [kind |-> "A_Expr", Lexpr |-> l, Rexpr |-> r]
BoolExpr(args) == [kind |-> "BoolExpr", Args |-> args]
FuncCall(args) == [kind |-> "FuncCall", Args |-> args]
SortBy(n) == [kind |-> "SortBy", Node |-> n]
SubLink(sel) == [kind |-> "SubLink", Subselect |-> sel]
ResTarget(name, val, loc) ==
    [kind |-> "ResTarget", Name |-> name, Val |-> val, Location |-> loc]
RangeVar(schema, rel, alias, loc) ==
    [kind |-> "RangeVar", Schemaname |-> schema, Relname |-> rel,
     Alias |-> alias, Location |-> loc]
JoinExpr(l, r, quals) == [kind |-> "JoinExpr", Larg |-> l, Rarg |-> r, Quals |-> quals]
RangeSubselect(lateral, sub, alias) ==
    [kind |-> "RangeSubselect", Lateral |-> lateral, Subquery |-> sub, Alias |-> alias]
SelectStmt(targets, from, where, having, group, sort) ==
    [kind |-> "SelectStmt", Larg |-> Nil, Rarg |-> Nil, TargetList |-> targets,
     FromClause |-> from, WhereClause |-> where, HavingClause |-> having,
     GroupClause |-> group, SortClause |-> sort]
SetOpStmt(l, r) ==
    [kind |-> "SelectStmt", Larg |-> l, Rarg |-> r, TargetList |-> <<>>,
     FromClause |-> <<>>, WhereClause |-> Nil, HavingClause |-> Nil,
     GroupClause |-> <<>>, SortClause |-> <<>>]
UpdateStmt(rel, targets, where) ==
    [kind |-> "UpdateStmt", Relation |-> rel, TargetList |-> targets,
     WhereClause |-> where]
InsertStmt(rel, cols) == [kind |-> "InsertStmt", Relation |-> rel, Cols |-> cols]
DeleteStmt(rel, where) == [kind |-> "DeleteStmt", Relation |-> rel, WhereClause |-> where]
RawStmt(stmt) == [kind |-> "RawStmt", Stmt |-> stmt]

\* ------------------------------------------------------------------------
\* The checker.  checkCallRecurse and the per-statement checks mutate the
\* scope they are handed, so each returns [errs, scope, panic]: the
\* diagnostics appended, the scope as it is left, and whether the call
\* panicked instead of returning (a panic unwinds out of checkCalls).

Ret(errs, scope) == [errs |-> errs, scope |-> scope, panic |-> FALSE]
Panicked(scope) == [errs |-> <<>>, scope |-> scope, panic |-> TRUE]

\* errs = append(errs, ...): the diagnostics e precede those of result r
prependErrs(e, r) == [r EXCEPT !.errs = e \o @]

\* node.(pgnodes.String): the type assertion panics on any other node
IsString(n) == n.kind = "String"

\* The (schema, table, offset) split shared by the ColumnRef case of
\* checkCallRecurse and by typeCheck; panic when a qualifier is no String
refQualifiers(fields) ==
    IF Len(fields) = 3
    THEN IF IsString(fields[1]) /\ IsString(fields[2])
         THEN [panic |-> FALSE, schema |-> fields[1].Str, table |-> fields[2].Str,
               offset |-> 2]
         ELSE [panic |-> TRUE, schema |-> "", table |-> "", offset |-> 0]
    ELSE IF Len(fields) = 2
    THEN IF IsString(fields[1])
         THEN [panic |-> FALSE, schema |-> "", table |-> fields[1].Str, offset |-> 1]
         ELSE [panic |-> TRUE, schema |-> "", table |-> "", offset |-> 0]
    ELSE [panic |-> Len(fields) = 0, schema |-> "", table |-> "", offset |-> 0]

\* The import paths of a Set in lookup order
allImps(imports) ==
    MakeCopy(Len(imports.Standard) + Len(imports.ThirdParty),
             imports.Standard \o imports.ThirdParty, <<>>)

\* The test of the import loop of typeCheck: the import's last path element
\* is compared with splits[1]
importMatches(splits, i) == splits[2] = pathBase(Trim(i, "\""))

\* imp as left by the import loop of typeCheck ("" when no import matched)
resolveImport(s, colType) ==
    LET Imp(imps, k) == IF k = 0 THEN <<>>
                        ELSE pathJoin(pathDir(Trim(imps[k], "\"")), colType)
        Find(imps) ==
            Imp(imps, FirstIndex([k \in 1..Len(imps) |->
                                     importMatches(Split(colType, "."), imps[k])]))
    IN Find(allImps(BasedOnType(s, colType)))

\* No diagnostic from typeCheck
typeCheckNil == [panic |-> FALSE, errs |-> <<>>]

\* The TypeErr of typeCheck for column col, referred to as q.schema,
\* q.table, column, against parameter p
typeCheckErr(fn, q, column, col, p, callType) ==
    [panic |-> FALSE,
     errs |-> <<TypeErr(q.schema, q.table, column, callType, col.Type,
                        col.DBType, p.Number, p.Location, fn)>>]

\* A deliberately wrong variant: the driver type is normalised before the argument count is
\* looked at
typeCheckArgNormaliseFirst(s, fn, q, column, col, p) ==
    IF Len(Split(col.Type, ".")) > 1 /\ resolveImport(s, col.Type) = <<>>
    THEN [panic |-> FALSE, errs |-> <<LookupErr(col.Type)>>]
    ELSE IF p.Number - 1 >= Len(fn.ArgTypes)
    THEN typeCheckErr(fn, q, column, col, p, <<"<none>">>)
    ELSE IF p.Number - 1 < 0
    THEN [panic |-> TRUE, errs |-> <<>>]
    ELSE IF fn.ArgTypes[p.Number] # col.Type
    THEN typeCheckErr(fn, q, column, col, p, fn.ArgTypes[p.Number])
    ELSE typeCheckNil

\* typeCheck once the column has resolved to col: the argument count, the
\* import lookup of a dotted driver type, the comparison.  normalizedType
\* is never assigned the import found, so the comparison is with col.Type
typeCheckArg(s, fn, q, column, col, p) ==
    IF p.Number - 1 >= Len(fn.ArgTypes)
    THEN typeCheckErr(fn, q, column, col, p, <<"<none>">>)
    ELSE IF p.Number - 1 < 0
    THEN [panic |-> TRUE, errs |-> <<>>]
    ELSE IF Len(Split(col.Type, ".")) > 1 /\ resolveImport(s, col.Type) = <<>>
    THEN [panic |-> FALSE, errs |-> <<LookupErr(col.Type)>>]
    ELSE IF fn.ArgTypes[p.Number] # col.Type
    THEN typeCheckErr(fn, q, column, col, p, fn.ArgTypes[p.Number])
    ELSE typeCheckNil

\* typeCheck on what scope.get returned (g) for the column
typeCheckGet(s, fn, q, column, g, p) ==
    IF g.ret # scopeRetOk \/ g.col.isNil THEN typeCheckNil
    ELSE typeCheckArg(s, fn, q, column, g.col.v, p)

\* typeCheck of column reference c against parameter p, q the qualifiers of c
typeCheckRef(s, fn, scope, c, p, q) ==
    IF q.panic \/ ~IsString(c.Fields[q.offset + 1])
    THEN [panic |-> TRUE, errs |-> <<>>]
    ELSE typeCheckGet(s, fn, q, c.Fields[q.offset + 1].Str,
                      get(scope, q.schema, q.table, c.Fields[q.offset + 1].Str), p)

\* typeCheck: returns [panic, errs] with errs empty (nil) or one error
typeCheck(s, fn, scope, lhs, rhs) ==
    IF lhs.kind = "Nil" \/ rhs.kind = "Nil" THEN typeCheckNil
    ELSE LET c == IF rhs.kind = "ColumnRef" THEN rhs
                  ELSE IF lhs.kind = "ColumnRef" THEN lhs ELSE Nil
             p == IF rhs.kind = "ParamRef" THEN rhs
                  ELSE IF lhs.kind = "ParamRef" THEN lhs ELSE Nil
         IN IF c.kind = "Nil" \/ p.kind = "Nil" THEN typeCheckNil
            ELSE typeCheckRef(s, fn, scope, c, p, refQualifiers(c.Fields))

\* The Kind given to the IdentErr of a select-list column that does not
\* resolve: the literal sets no Kind, so it is the zero value
selectListKind(ret) == Unknown

\* The test of the select list for a bare `*` target, on which it panics
targetIsBareStar(fields) == Len(fields) = 1 /\ fields[1].kind = "A_Star"

\* A deliberately wrong variant: one table too few is popped at the end of a select
selectPopCountShort(nTables) == IF nTables > 0 THEN nTables - 1 ELSE 0

\* Number of popTable calls at the end of checkSelect
selectPopCount(nTables) == nTables

RECURSIVE popTables(_, _)
popTables(scope, n) == IF n = 0 THEN scope ELSE popTables(popTable(scope), n - 1)

RECURSIVE popOutputNames(_, _)
popOutputNames(scope, n) ==
    IF n = 0 THEN scope ELSE popOutputNames(popOutputName(scope), n - 1)

RECURSIVE pushOutputNames(_, _)
pushOutputNames(scope, refs) ==
    IF refs = <<>> THEN scope
    ELSE pushOutputNames(pushOutputName(scope, Head(refs).name, Head(refs).col),
                         Tail(refs))

outputColsToPseudoTable(name, refs) ==
    Table("", name, [i \in 1..Len(refs) |->
                        [(IF refs[i].col.isNil THEN ZeroColumn ELSE refs[i].col.v)
                            EXCEPT !.Name = refs[i].name]])

\* Results of the select-list loop: [panic, errs, addRefs]
targetStop == [panic |-> TRUE, errs |-> <<>>, addRefs |-> <<>>]
targetSkip(e, rest) == [rest EXCEPT !.errs = <<e>> \o @]
targetAdd(r, rest) == [rest EXCEPT !.addRefs = <<r>> \o @]

\* One select-list column reference (schema.)(table.)col, g what scope.get
\* returned for it, rest the result of the loop over the later targets
targetColumn(fn, resTarg, schema, table, col, g, rest) ==
    IF g.ret # scopeRetOk
    THEN targetSkip(IdentErr(selectListKind(g.ret), schema, table, col,
                             resTarg.Val.Location, fn), rest)
    ELSE IF resTarg.Name = ""
    THEN IF g.col.isNil THEN targetStop
         ELSE targetAdd([name |-> g.col.v.Name, col |-> g.col], rest)
    ELSE targetAdd([name |-> resTarg.Name, col |-> g.col], rest)

\* The select-list loop of checkSelect over the targets, given the scope the
\* FROM clause built: returns [panic, errs, addRefs]
RECURSIVE targetLoop(_, _, _)
targetLoop(fn, scope, items) ==
    IF items = <<>> THEN [panic |-> FALSE, errs |-> <<>>, addRefs |-> <<>>]
    ELSE
    LET resTarg == Head(items)
        f == resTarg.Val.Fields
        ln == Len(f)
        col == f[ln].Str
        table == IF ln >= 2 THEN f[ln - 1].Str ELSE ""
        schema == IF ln >= 3 THEN f[ln - 2].Str ELSE ""
    IN IF resTarg.kind # "ResTarget" THEN targetStop
       ELSE IF resTarg.Val.kind # "ColumnRef"
       THEN targetAdd([name |-> resTarg.Name, col |-> NilCol],
                      targetLoop(fn, scope, Tail(items)))
       ELSE IF ln = 0 \/ targetIsBareStar(f) THEN targetStop
       ELSE IF \E k \in 1..ln : k >= ln - 2 /\ ~IsString(f[k]) THEN targetStop
       ELSE targetColumn(fn, resTarg, schema, table, col,
                         get(scope, schema, table, col),
                         targetLoop(fn, scope, Tail(items)))

\* The result of addTable given what pushTable returned
addTableResult(fn, r, pt) ==
    IF pt.ok THEN [scope |-> pt.scope, errs |-> <<>>, pushed |-> 1]
    ELSE [scope |-> pt.scope, pushed |-> 0,
          errs |-> <<IdentErr(Unknown, r.Schemaname, r.Relname, "", r.Location, fn)>>]

\* pushTable of a statement's relation, with the IdentErr of a failed push:
\* returns [scope, errs, pushed] (addTable, and the head of checkUpdate,
\* checkInsert, checkDelete)
addTable(fn, scope, r) ==
    addTableResult(fn, r, pushTable(scope, r.Schemaname, r.Relname, r.Alias))

RECURSIVE checkCallRecurse(_, _, _, _)
RECURSIVE checkNodes(_, _, _, _)
RECURSIVE checkSelect(_, _, _, _)
RECURSIVE fromLoop(_, _, _, _)

\* descend over the remaining nodes after r, the result on the first
checkNodesRest(state, fn, r, nodes) ==
    IF r.panic THEN r
    ELSE prependErrs(r.errs, checkNodes(state, fn, r.scope, nodes))

\* descend over a list of nodes in order, on the one scope
checkNodes(state, fn, scope, nodes) ==
    IF nodes = <<>> THEN Ret(<<>>, scope)
    ELSE checkNodesRest(state, fn, checkCallRecurse(state, fn, scope, Head(nodes)),
                        Tail(nodes))

\* A deliberately wrong variant of joinPush: the join condition is checked
\* before the right side is pushed
joinPushQualsFirst(item) == <<item.Rarg, item.Quals, item.Larg>>

\* What the FROM worklist appends for a join: its condition, its right
\* side, its left side, so the left side is popped first
joinPush(item) == <<item.Quals, item.Rarg, item.Larg>>

\* Results of the FROM worklist: [panic, errs, scope, nTables]
fromStop(scope) == [panic |-> TRUE, errs |-> <<>>, scope |-> scope, nTables |-> 0]
fromCont(errs, n, rest) == [rest EXCEPT !.errs = errs \o @, !.nTables = n + @]

\* The worklist after a RangeVar, a what addTable returned for it
fromRangeVar(state, fn, a, rem) ==
    fromCont(a.errs, a.pushed, fromLoop(state, fn, a.scope, rem))

\* The worklist after a join condition, r the result of descending into it
fromQuals(state, fn, r, rem) ==
    IF r.panic THEN fromStop(r.scope)
    ELSE fromCont(r.errs, 0, fromLoop(state, fn, r.scope, rem))

\* The worklist after a sub-select in FROM, sub the result of its check
fromSubselect(state, fn, scope, item, sub, rem) ==
    IF sub.panic THEN fromStop(scope)
    ELSE fromCont(sub.errs, 1,
             fromLoop(state, fn,
                      pushPseudoTable(scope, item.Alias,
                          outputColsToPseudoTable(item.Alias, sub.addRefs)),
                      rem))

\* The FROM worklist of checkSelect: stack is the LIFO worklist (its last
\* element is popped next); returns [panic, errs, scope, nTables]
fromLoop(state, fn, scope, stack) ==
    IF stack = <<>>
    THEN [panic |-> FALSE, errs |-> <<>>, scope |-> scope, nTables |-> 0]
    ELSE
    LET item == stack[Len(stack)]
        rem == DropLast(stack)
    IN CASE item.kind = "RangeVar" ->
              fromRangeVar(state, fn, addTable(fn, scope, item), rem)
         [] item.kind = "JoinExpr" ->
              fromLoop(state, fn, scope, rem \o joinPush(item))
         [] item.kind \in {"A_Expr", "BoolExpr"} ->
              fromQuals(state, fn, checkCallRecurse(state, fn, scope, item), rem)
         [] item.kind = "RangeSubselect" ->
              IF item.Alias = "" \/ item.Subquery.kind # "SelectStmt"
              THEN fromStop(scope)
              ELSE fromSubselect(state, fn, scope, item,
                       checkSelect(state, fn,
                                   IF item.Lateral THEN clone(scope)
                                   ELSE NewScope(scope.info),
                                   item.Subquery),
                       rem)
         [] OTHER -> fromStop(scope)

\* Results of checkSelect: [panic, errs, scope, addRefs]
selectStop(scope) == [panic |-> TRUE, errs |-> <<>>, scope |-> scope, addRefs |-> <<>>]

\* checkSelect of a set operation, r the result of descending into both sides
selectSetOp(r) ==
    [panic |-> r.panic, errs |-> r.errs, scope |-> r.scope, addRefs |-> <<>>]

\* The end of checkSelect: gs is the result of the GROUP BY and ORDER BY
\* descent; the output names and the tables pushed are popped
selectPops(nTables, errs, addRefs, gs) ==
    IF gs.panic THEN selectStop(gs.scope)
    ELSE [panic |-> FALSE, errs |-> errs \o gs.errs,
          scope |-> popTables(popOutputNames(gs.scope, Len(addRefs)),
                              selectPopCount(nTables)),
          addRefs |-> addRefs]

\* checkSelect from the output names on: tl is the result of the select list
selectGroupSort(state, fn, sel, nTables, errs, scope, tl) ==
    IF tl.panic THEN selectStop(scope)
    ELSE selectPops(nTables, errs \o tl.errs, tl.addRefs,
             checkNodes(state, fn, pushOutputNames(scope, tl.addRefs),
                        sel.GroupClause \o sel.SortClause))

\* checkSelect from the select list on: wh is the result of WHERE and HAVING
selectTargets(state, fn, sel, nTables, errs, wh) ==
    IF wh.panic THEN selectStop(wh.scope)
    ELSE selectGroupSort(state, fn, sel, nTables, errs \o wh.errs, wh.scope,
                         targetLoop(fn, wh.scope, sel.TargetList))

\* checkSelect from the follow-up clauses on: fr is the result of FROM
selectWhere(state, fn, sel, fr) ==
    IF fr.panic THEN selectStop(fr.scope)
    ELSE selectTargets(state, fn, sel, fr.nTables, fr.errs,
             checkNodes(state, fn, fr.scope, <<sel.WhereClause, sel.HavingClause>>))

\* checkSelect: returns [panic, errs, scope, addRefs]
checkSelect(state, fn, scope, sel) ==
    IF sel.Larg.kind # "Nil" /\ sel.Rarg.kind # "Nil"
    THEN selectSetOp(checkNodes(state, fn, scope, <<sel.Larg, sel.Rarg>>))
    ELSE selectWhere(state, fn, sel, fromLoop(state, fn, scope, sel.FromClause))

\* The end of checkUpdate, checkInsert, checkDelete: r is the result of
\* descending into the statement's nodes; the relation is popped if it was
\* pushed
relationPop(a, r) ==
    IF r.panic THEN r
    ELSE Ret(a.errs \o r.errs, popTables(r.scope, a.pushed))

\* checkUpdate, checkInsert, checkDelete after the relation was pushed (a)
relationNodes(state, fn, a, nodes) ==
    relationPop(a, checkNodes(state, fn, a.scope, nodes))

\* checkUpdate, checkInsert, checkDelete: the relation is pushed, the given
\* nodes are checked in order, the relation is popped if it was pushed
checkRelation(state, fn, scope, relation, nodes) ==
    relationNodes(state, fn, addTable(fn, scope, relation), nodes)

\* A deliberately wrong variant of checkUpdate: the WHERE clause is checked
\* before the assignments
checkUpdateWhereFirst(state, fn, scope, update) ==
    checkRelation(state, fn, scope, update.Relation,
                  <<update.WhereClause>> \o update.TargetList)

checkUpdate(state, fn, scope, update) ==
    checkRelation(state, fn, scope, update.Relation,
                  update.TargetList \o <<update.WhereClause>>)

checkInsert(state, fn, scope, ins) ==
    checkRelation(state, fn, scope, ins.Relation, ins.Cols)

checkDelete(state, fn, scope, del) ==
    checkRelation(state, fn, scope, del.Relation, <<del.WhereClause>>)

\* The SelectStmt case of checkCallRecurse: the output columns are dropped
recurseSelect(r) == [errs |-> r.errs, scope |-> r.scope, panic |-> r.panic]

\* The end of the A_Expr case: r the descent into both sides, t the typeCheck
recurseTyped(r, t) ==
    IF t.panic THEN Panicked(r.scope) ELSE Ret(r.errs \o t.errs, r.scope)

\* The A_Expr case of checkCallRecurse after both sides were descended into
recurseExpr(state, fn, n, r) ==
    IF r.panic THEN r
    ELSE recurseTyped(r, typeCheck(state, fn, r.scope, n.Lexpr, n.Rexpr))

\* The ColumnRef case of checkCallRecurse once the name asked for is known
recurseHas(fn, scope, n, q, column, ret) ==
    IF ret # scopeRetOk
    THEN Ret(<<IdentErr(IF ret = scopeRetAmbiguous THEN Ambiguous ELSE Unknown,
                        q.schema, q.table, column, n.Location, fn)>>, scope)
    ELSE Ret(<<>>, scope)

\* The ColumnRef case of checkCallRecurse, q the qualifiers of the reference
recurseColumnRef(fn, scope, n, q) ==
    IF q.panic THEN Panicked(scope)
    ELSE LET item == n.Fields[q.offset + 1]
         IN CASE item.kind = "String" ->
                   recurseHas(fn, scope, n, q, item.Str,
                              has(scope, q.schema, q.table, item.Str))
              [] item.kind = "A_Star" -> Ret(<<>>, scope)
              [] OTHER -> Panicked(scope)

\* The IdentErr of the ResTarget case: a named target that is no column in scope
recurseResTargetErrs(fn, scope, n) ==
    IF n.Name # "" /\ has(scope, "", "", n.Name) = scopeRetUnknown
    THEN <<IdentErr(Unknown, "", "", n.Name, n.Location, fn)>>
    ELSE <<>>

checkCallRecurse(state, fn, scope, n) ==
    CASE n.kind = "RawStmt" -> Panicked(scope)
      [] n.kind = "SelectStmt" -> recurseSelect(checkSelect(state, fn, scope, n))
      [] n.kind = "UpdateStmt" -> checkUpdate(state, fn, scope, n)
      [] n.kind = "InsertStmt" -> checkInsert(state, fn, scope, n)
      [] n.kind = "DeleteStmt" -> checkDelete(state, fn, scope, n)
      [] n.kind = "SortBy" -> checkCallRecurse(state, fn, scope, n.Node)
      [] n.kind = "FuncCall" -> checkNodes(state, fn, scope, n.Args)
      [] n.kind = "A_Expr" ->
           recurseExpr(state, fn, n, checkNodes(state, fn, scope, <<n.Lexpr, n.Rexpr>>))
      [] n.kind = "BoolExpr" -> checkNodes(state, fn, scope, n.Args)
      [] n.kind = "ColumnRef" -> recurseColumnRef(fn, scope, n, refQualifiers(n.Fields))
      [] n.kind = "SubLink" -> checkCallRecurse(state, fn, scope, n.Subselect)
      [] n.kind = "ResTarget" ->
           prependErrs(recurseResTargetErrs(fn, scope, n),
                       checkNodes(state, fn, scope, <<n.Val>>))
      [] OTHER -> Ret(<<>>, scope)

\* checkCall after its first statement, r the result of checking it and rest
\* the result on the later statements
checkCallRest(r, rest) ==
    IF r.panic \/ rest.panic THEN [errs |-> <<>>, panic |-> TRUE, scopes |-> <<>>]
    ELSE [rest EXCEPT !.errs = r.errs \o @, !.scopes = <<r.scope>> \o @]

\* checkCall: returns [errs, panic, scopes], scopes being the scope of each
\* statement as its check left it
RECURSIVE checkCall(_, _, _)
checkCall(state, fn, statements) ==
    IF statements = <<>> THEN [errs |-> <<>>, panic |-> FALSE, scopes |-> <<>>]
    ELSE checkCallRest(
             checkCallRecurse(state, fn, NewScope(state.DBInfo),
                              IF Head(statements).kind = "RawStmt"
                              THEN Head(statements).Stmt ELSE Head(statements)),
             checkCall(state, fn, Tail(statements)))

\* ------------------------------------------------------------------------
\* The SQL corpus and the external parser (pgquery.Parse) on it.  A SQL
\* text of the corpus is described by its clauses; Parse builds the tree
\* the parser returns for it, with the byte offset of every node that
\* carries a Location.

\* The select lists of the corpus: text -> [len, items], b the byte offset of the text
TargetFrag(text, b) ==
    CASE text = "*" ->
           [len |-> 1,
            items |-> <<ResTarget("", ColumnRef(<<A_Star>>, b + 0), b + 0)>>]
      [] text = "id" ->
           [len |-> 2,
            items |-> <<ResTarget("", ColumnRef(<<String("id")>>, b + 0), b + 0)>>]
      [] text = "u.id" ->
           [len |-> 4,
            items |-> <<ResTarget("", ColumnRef(<<String("u"), String("id")>>, b + 0), b + 0)>>]
      [] text = "name as n" ->
           [len |-> 9,
            items |-> <<ResTarget("n", ColumnRef(<<String("name")>>, b + 0), b + 0)>>]
      [] text = "length(name)" ->
           [len |-> 12,
            items |-> <<ResTarget("", FuncCall(<<ColumnRef(<<String("name")>>, b + 7)>>), b + 0)>>]
      [] text = "'t' as hello" ->
           [len |-> 12,
            items |-> <<ResTarget("hello", A_Const, b + 0)>>]
      [] text = "u.*" ->
           [len |-> 3,
            items |-> <<ResTarget("", ColumnRef(<<String("u"), A_Star>>, b + 0), b + 0)>>]
      [] text = "tv.tag_id, (select count(tag_videos.video_id) from tag_videos where tag_videos.tag_id = tv.tag_id)" ->
           [len |-> 98,
            items |-> <<ResTarget("", ColumnRef(<<String("tv"), String("tag_id")>>, b + 0), b + 0),
            ResTarget("", SubLink(SelectStmt(
                <<ResTarget("", FuncCall(<<ColumnRef(<<String("tag_videos"), String("video_id")>>, b + 25)>>), b + 19)>>,
                <<RangeVar("", "tag_videos", "", b + 51)>>,
                A_Expr(ColumnRef(<<String("tag_videos"), String("tag_id")>>, b + 68),
                       ColumnRef(<<String("tv"), String("tag_id")>>, b + 88)),
                Nil, <<>>, <<>>)), b + 11)>>]
      [] text = "tv.tag_id, (select count(tag_videos.video_id) from tag_videos where tag_videos.tag_id = xx.tag_id)" ->
           [len |-> 98,
            items |-> <<ResTarget("", ColumnRef(<<String("tv"), String("tag_id")>>, b + 0), b + 0),
            ResTarget("", SubLink(SelectStmt(
                <<ResTarget("", FuncCall(<<ColumnRef(<<String("tag_videos"), String("video_id")>>, b + 25)>>), b + 19)>>,
                <<RangeVar("", "tag_videos", "", b + 51)>>,
                A_Expr(ColumnRef(<<String("tag_videos"), String("tag_id")>>, b + 68),
                       ColumnRef(<<String("xx"), String("tag_id")>>, b + 88)),
                Nil, <<>>, <<>>)), b + 11)>>]

\* The FROM clauses of the corpus ("" is a select without FROM)
FromFrag(text, b) ==
    CASE text = "" ->
           [len |-> 0,
            items |-> <<>>]
      [] text = "users" ->
           [len |-> 5,
            items |-> <<RangeVar("", "users", "", b + 0)>>]
      [] text = "users, videos" ->
           [len |-> 13,
            items |-> <<RangeVar("", "users", "", b + 0),
            RangeVar("", "videos", "", b + 7)>>]
      [] text = "users as u" ->
           [len |-> 10,
            items |-> <<RangeVar("", "users", "u", b + 0)>>]
      [] text = "public.users" ->
           [len |-> 12,
            items |-> <<RangeVar("public", "users", "", b + 0)>>]
      [] text = "comments" ->
           [len |-> 8,
            items |-> <<RangeVar("", "comments", "", b + 0)>>]
      [] text = "tag_videos tv" ->
           [len |-> 13,
            items |-> <<RangeVar("", "tag_videos", "tv", b + 0)>>]
      [] text = "users join videos on videos.id = users.id" ->
           [len |-> 41,
            items |-> <<JoinExpr(RangeVar("", "users", "", b + 0),
            RangeVar("", "videos", "", b + 11),
            A_Expr(ColumnRef(<<String("videos"), String("id")>>, b + 21), ColumnRef(<<String("users"), String("id")>>, b + 33)))>>]
      [] text = "users join videos on videos.id = users.id join comments on comments.id = videos.id" ->
           [len |-> 82,
            items |-> <<JoinExpr(
                JoinExpr(RangeVar("", "users", "", b + 0),
                         RangeVar("", "videos", "", b + 11),
                         A_Expr(ColumnRef(<<String("videos"), String("id")>>, b + 21), ColumnRef(<<String("users"), String("id")>>, b + 33))),
                RangeVar("", "comments", "", b + 47),
                A_Expr(ColumnRef(<<String("comments"), String("id")>>, b + 59), ColumnRef(<<String("videos"), String("id")>>, b + 73)))>>]
      [] text = "users join videos on comments.id = users.id join comments on comments.id = videos.id" ->
           [len |-> 84,
            items |-> <<JoinExpr(
                JoinExpr(RangeVar("", "users", "", b + 0),
                         RangeVar("", "videos", "", b + 11),
                         A_Expr(ColumnRef(<<String("comments"), String("id")>>, b + 21), ColumnRef(<<String("users"), String("id")>>, b + 35))),
                RangeVar("", "comments", "", b + 49),
                A_Expr(ColumnRef(<<String("comments"), String("id")>>, b + 61), ColumnRef(<<String("videos"), String("id")>>, b + 75)))>>]
      [] text = "users cross join videos" ->
           [len |-> 23,
            items |-> <<JoinExpr(RangeVar("", "users", "", b + 0),
            RangeVar("", "videos", "", b + 17), Nil)>>]
      [] text = "users as u join lateral (select videos.id from videos where videos.id = u.id) as v on v.id = u.id" ->
           [len |-> 97,
            items |-> <<JoinExpr(RangeVar("", "users", "u", b + 0),
            RangeSubselect(TRUE,
            SelectStmt(<<ResTarget("", ColumnRef(<<String("videos"), String("id")>>, b + 32), b + 32)>>,
            <<RangeVar("", "videos", "", b + 47)>>,
            A_Expr(ColumnRef(<<String("videos"), String("id")>>, b + 60), ColumnRef(<<String("u"), String("id")>>, b + 72)),
            Nil, <<>>, <<>>),
            "v"),
            A_Expr(ColumnRef(<<String("v"), String("id")>>, b + 86), ColumnRef(<<String("u"), String("id")>>, b + 93)))>>]
      [] text = "users as u, lateral (select videos.id from videos where videos.id = u.id) as v" ->
           [len |-> 78,
            items |-> <<RangeVar("", "users", "u", b + 0),
            RangeSubselect(TRUE,
            SelectStmt(<<ResTarget("", ColumnRef(<<String("videos"), String("id")>>, b + 28), b + 28)>>,
            <<RangeVar("", "videos", "", b + 43)>>,
            A_Expr(ColumnRef(<<String("videos"), String("id")>>, b + 56), ColumnRef(<<String("u"), String("id")>>, b + 68)),
            Nil, <<>>, <<>>),
            "v")>>]
      [] text = "users as u join (select videos.id from videos where videos.id = u.id) as v on v.id = u.id" ->
           [len |-> 89,
            items |-> <<JoinExpr(RangeVar("", "users", "u", b + 0),
            RangeSubselect(FALSE,
            SelectStmt(<<ResTarget("", ColumnRef(<<String("videos"), String("id")>>, b + 24), b + 24)>>,
            <<RangeVar("", "videos", "", b + 39)>>,
            A_Expr(ColumnRef(<<String("videos"), String("id")>>, b + 52), ColumnRef(<<String("u"), String("id")>>, b + 64)),
            Nil, <<>>, <<>>),
            "v"),
            A_Expr(ColumnRef(<<String("v"), String("id")>>, b + 78), ColumnRef(<<String("u"), String("id")>>, b + 85)))>>]
      [] text = "(select id from videos) as v" ->
           [len |-> 28,
            items |-> <<RangeSubselect(FALSE,
            SelectStmt(<<ResTarget("", ColumnRef(<<String("id")>>, b + 8), b + 8)>>,
            <<RangeVar("", "videos", "", b + 16)>>, Nil, Nil, <<>>, <<>>),
            "v")>>]

\* The WHERE clauses of the corpus ("" is no WHERE)
WhereFrag(text, b) ==
    CASE text = "" ->
           [len |-> 0,
            node |-> Nil]
      [] text = "id = $1" ->
           [len |-> 7,
            node |-> A_Expr(ColumnRef(<<String("id")>>, b + 0), ParamRef(1, b + 5))]
      [] text = "$2 = comment" ->
           [len |-> 12,
            node |-> A_Expr(ParamRef(2, b + 0), ColumnRef(<<String("comment")>>, b + 5))]
      [] text = "comment = $1" ->
           [len |-> 12,
            node |-> A_Expr(ColumnRef(<<String("comment")>>, b + 0), ParamRef(1, b + 10))]
      [] text = "tv.video_id = $1" ->
           [len |-> 16,
            node |-> A_Expr(ColumnRef(<<String("tv"), String("video_id")>>, b + 0), ParamRef(1, b + 14))]
      [] text = "(users.id = 5) and (name = $1)" ->
           [len |-> 30,
            node |-> BoolExpr(<<A_Expr(ColumnRef(<<String("users"), String("id")>>, b + 1), A_Const),
            A_Expr(ColumnRef(<<String("name")>>, b + 20), ParamRef(1, b + 27))>>)]
      [] text = "exists (select id from videos where videos.id = users.id)" ->
           [len |-> 57,
            node |-> SubLink(SelectStmt(<<ResTarget("", ColumnRef(<<String("id")>>, b + 15), b + 15)>>,
            <<RangeVar("", "videos", "", b + 23)>>,
            A_Expr(ColumnRef(<<String("videos"), String("id")>>, b + 36), ColumnRef(<<String("users"), String("id")>>, b + 48)),
            Nil, <<>>, <<>>))]

\* The GROUP BY / HAVING / ORDER BY tails of the corpus ("" is none)
TailFrag(text, b) ==
    CASE text = "" ->
           [len |-> 0,
            group |-> <<>>, having |-> Nil, sort |-> <<>>]
      [] text = "order by id" ->
           [len |-> 11,
            group |-> <<>>, having |-> Nil,
            sort |-> <<SortBy(ColumnRef(<<String("id")>>, b + 9))>>]
      [] text = "group by u.id having u.id > 5" ->
           [len |-> 29,
            group |-> <<ColumnRef(<<String("u"), String("id")>>, b + 9)>>,
            having |-> A_Expr(ColumnRef(<<String("u"), String("id")>>, b + 21), A_Const),
            sort |-> <<>>]
      [] text = "order by hello" ->
           [len |-> 14,
            group |-> <<>>, having |-> Nil,
            sort |-> <<SortBy(ColumnRef(<<String("hello")>>, b + 9))>>]
      [] text = "having hello > 5" ->
           [len |-> 16,
            group |-> <<>>,
            having |-> A_Expr(ColumnRef(<<String("hello")>>, b + 7), A_Const),
            sort |-> <<>>]

\* The target relations of update / insert / delete
RelationFrag(text, b) ==
    CASE text = "users" ->
           [len |-> 5,
            rel |-> RangeVar("", "users", "", b + 0)]
      [] text = "users as u" ->
           [len |-> 10,
            rel |-> RangeVar("", "users", "u", b + 0)]
      [] text = "public.comments" ->
           [len |-> 15,
            rel |-> RangeVar("public", "comments", "", b + 0)]

\* The SET lists of update
SetFrag(text, b) ==
    CASE text = "name = $1" ->
           [len |-> 9,
            items |-> <<ResTarget("name", ParamRef(1, b + 7), b + 0)>>]
      [] text = "nope = id" ->
           [len |-> 9,
            items |-> <<ResTarget("nope", ColumnRef(<<String("id")>>, b + 7), b + 0)>>]
      [] text = "id = $1, comment = $2" ->
           [len |-> 21,
            items |-> <<ResTarget("id", ParamRef(1, b + 5), b + 0),
            ResTarget("comment", ParamRef(2, b + 19), b + 9)>>]

\* The column lists of insert
ColsFrag(text, b) ==
    CASE text = "id" ->
           [len |-> 2,
            items |-> <<ResTarget("id", Nil, b + 0)>>]
      [] text = "id, nope" ->
           [len |-> 8,
            items |-> <<ResTarget("id", Nil, b + 0),
            ResTarget("nope", Nil, b + 4)>>]


\* select <target>[ from <from>][ where <where>][ <tail>], starting at offset b
ParseSelectAt(d, b) ==
    LET tb == b + 7
        t == TargetFrag(d.target, tb)
        fb == tb + t.len + 6
        f == FromFrag(d.from, fb)
        fe == IF d.from = "" THEN tb + t.len ELSE fb + f.len
        wb == fe + 7
        w == WhereFrag(d.where, wb)
        we == IF d.where = "" THEN fe ELSE wb + w.len
        g == TailFrag(d.tail, we + 1)
        ge == IF d.tail = "" THEN we ELSE we + 1 + g.len
    IN [len |-> ge - b,
        stmt |-> SelectStmt(t.items, f.items, w.node, g.having, g.group, g.sort)]

\* <l> union <r>
ParseUnion(d) ==
    LET l == ParseSelectAt(d.l, 0)
        r == ParseSelectAt(d.r, l.len + 7)
    IN SetOpStmt(l.stmt, r.stmt)

\* update <rel> set <set>[ where <where>]
ParseUpdate(d) ==
    LET r == RelationFrag(d.rel, 7)
        sb == 7 + r.len + 5
        t == SetFrag(d.set, sb)
        w == WhereFrag(d.where, sb + t.len + 7)
    IN UpdateStmt(r.rel, t.items, w.node)

\* insert into <rel> (<cols>) values (...)
ParseInsert(d) ==
    LET r == RelationFrag(d.rel, 12)
        c == ColsFrag(d.cols, 12 + r.len + 2)
    IN InsertStmt(r.rel, c.items)

\* delete from <rel>[ where <where>]
ParseDelete(d) ==
    LET r == RelationFrag(d.rel, 12)
        w == WhereFrag(d.where, 12 + r.len + 7)
    IN DeleteStmt(r.rel, w.node)

\* pgquery.Parse: [err, Statements]; every statement comes wrapped in a
\* RawStmt, a text that does not parse yields an error and an empty tree
Parse(sql) ==
    CASE sql.form = "select" ->
           [err |-> FALSE, Statements |-> <<RawStmt(ParseSelectAt(sql, 0).stmt)>>]
      [] sql.form = "union" ->
           [err |-> FALSE, Statements |-> <<RawStmt(ParseUnion(sql))>>]
      [] sql.form = "update" ->
           [err |-> FALSE, Statements |-> <<RawStmt(ParseUpdate(sql))>>]
      [] sql.form = "insert" ->
           [err |-> FALSE, Statements |-> <<RawStmt(ParseInsert(sql))>>]
      [] sql.form = "delete" ->
           [err |-> FALSE, Statements |-> <<RawStmt(ParseDelete(sql))>>]
      [] OTHER -> [err |-> TRUE, Statements |-> <<>>]

\* A deliberately wrong variant of checkCallsRest: a call that fails to
\* parse ends the run, the later calls are not checked
checkCallsPoisoned(pe, r, rest) ==
    IF pe # <<>> THEN [errs |-> pe, panic |-> FALSE, scopes |-> <<>>]
    ELSE IF r.panic \/ rest.panic THEN [errs |-> <<>>, panic |-> TRUE, scopes |-> <<>>]
    ELSE [rest EXCEPT !.errs = pe \o r.errs \o @, !.scopes = r.scopes \o @]

\* checkCalls after its first call: pe the ParseError of that call if any,
\* r the result of checkCall on it, rest the result on the later calls
checkCallsRest(pe, r, rest) ==
    IF r.panic \/ rest.panic THEN [errs |-> <<>>, panic |-> TRUE, scopes |-> <<>>]
    ELSE [rest EXCEPT !.errs = pe \o r.errs \o @, !.scopes = r.scopes \o @]

\* checkCalls on call fn, tree what the parser returned for its SQL
checkCallsTree(state, fn, tree, rest) ==
    checkCallsRest(IF tree.err THEN <<ParseError(fn)>> ELSE <<>>,
                   checkCall(state, fn, tree.Statements), rest)

\* checkCalls: returns [errs, panic, scopes]
RECURSIVE checkCalls(_, _)
checkCalls(state, calls) ==
    IF calls = <<>> THEN [errs |-> <<>>, panic |-> FALSE, scopes |-> <<>>]
    ELSE checkCallsTree(state, Head(calls), Parse(Head(calls).SQL),
                        checkCalls(state, Tail(calls)))

\* ------------------------------------------------------------------------
\* Inputs of the checker

TInt == <<"int">>
TString == <<"string">>
TBool == <<"bool">>
TNullString == <<"null", ".", "String">>

\* The catalog of TestTypeErrors
TestDB ==
    [Tables |-> <<
        Table("public", "users", <<Column("id", TInt, "integer"),
                                   Column("name", TString, "text")>>),
        Table("public", "videos", <<Column("id", TInt, "integer"),
                                    Column("video", TString, "text")>>),
        Table("public", "comments", <<Column("id", TInt, "integer"),
                                      Column("comment", TNullString, "text")>>)>>]

\* The catalog of checkCallWrapper
EmptyDB == [Tables |-> <<>>]

\* The catalog of TestBugNestSelect
TagVideosDB ==
    [Tables |-> <<
        Table("", "tag_videos", <<Column("tag_id", TInt, "integer"),
                                  Column("video_id", TInt, "integer")>>)>>]

\* "github.com/volatiletech/null", quotes included
ImportNull ==
    <<"\"", "github", ".", "com", "/", "volatiletech", "/", "null", "\"">>
\* An import path whose last element is the type's name, not its package
ImportString == <<"\"", "example", ".", "com", "/", "String", "\"">>

NoImports == [t \in {} |-> ZeroSet]
Imports ==
    { NoImports,
      [t \in {TNullString} |-> [Standard |-> <<>>, ThirdParty |-> <<ImportNull>>]],
      [t \in {TNullString} |-> [Standard |-> <<ImportString>>, ThirdParty |-> <<>>]] }

\* State values: the empty catalog, the catalog of TestBugNestSelect, and the
\* test catalog under each import map
States ==
    [DBInfo : {EmptyDB, TagVideosDB}, Imports : {NoImports}]
    \cup [DBInfo : {TestDB}, Imports : Imports]

Targets == {"*", "id", "u.id", "name as n", "length(name)", "'t' as hello", "u.*"}
Froms == {"", "users", "users, videos", "users as u", "public.users", "comments",
          "users join videos on videos.id = users.id", "users cross join videos",
          "users join videos on videos.id = users.id join comments on comments.id = videos.id",
          "users join videos on comments.id = users.id join comments on comments.id = videos.id",
          "users as u join lateral (select videos.id from videos where videos.id = u.id) as v on v.id = u.id",
          "users as u join (select videos.id from videos where videos.id = u.id) as v on v.id = u.id",
          "users as u, lateral (select videos.id from videos where videos.id = u.id) as v",
          "(select id from videos) as v"}
Wheres == {"", "id = $1", "$2 = comment", "comment = $1",
           "(users.id = 5) and (name = $1)",
           "exists (select id from videos where videos.id = users.id)"}
Tails == {"", "order by id", "group by u.id having u.id > 5", "order by hello",
          "having hello > 5"}

\* The select statements of the corpus: every select list over every FROM;
\* every WHERE over the simple FROMs; every tail over the FROMs it can refer
\* to; and the nested FROMs under a WHERE and a tail
SelectSQLs ==
    [form : {"select"}, target : Targets, from : Froms, where : {""}, tail : {""}]
    \cup [form : {"select"}, target : {"*", "id"},
          from : {"users", "users, videos", "users as u", "comments"},
          where : Wheres, tail : {""}]
    \cup [form : {"select"}, target : {"*", "id", "name as n", "'t' as hello"},
          from : {"users", "users as u"}, where : {"", "id = $1"}, tail : Tails]
    \cup [form : {"select"}, target : {"id", "u.id"},
          from : {"users join videos on videos.id = users.id",
                  "users as u join lateral (select videos.id from videos where videos.id = u.id) as v on v.id = u.id",
                  "(select id from videos) as v"},
          where : {"id = $1",
                   "exists (select id from videos where videos.id = users.id)"},
          tail : {"group by u.id having u.id > 5"}]
UnionSQLs ==
    [form : {"union"},
     l : [form : {"select"}, target : {"id", "*"}, from : {"users"},
          where : {"", "id = $1"}, tail : {""}],
     r : [form : {"select"}, target : {"id"}, from : {"comments", "users as u"},
          where : {""}, tail : {"", "order by id"}]]
UpdateSQLs == [form : {"update"}, rel : {"users", "users as u", "public.comments"},
               set : {"name = $1", "nope = id", "id = $1, comment = $2"},
               where : {"", "id = $1"}]
InsertSQLs == [form : {"insert"}, rel : {"users", "public.comments"},
               cols : {"id", "id, nope"}]
DeleteSQLs == [form : {"delete"}, rel : {"users", "users as u"},
               where : {"", "id = $1", "comment = $1"}]
\* The query of TestBugNestSelect, and the same with the alias xx, which no
\* FROM declares, inside the sub-select
NestSelectSQLs ==
    [form : {"select"},
     target : {"tv.tag_id, (select count(tag_videos.video_id) from tag_videos where tag_videos.tag_id = tv.tag_id)",
               "tv.tag_id, (select count(tag_videos.video_id) from tag_videos where tag_videos.tag_id = xx.tag_id)"},
     from : {"tag_videos tv"}, where : {"tv.video_id = $1"}, tail : {""}]
SQLs == SelectSQLs \cup NestSelectSQLs \cup UnionSQLs \cup UpdateSQLs \cup InsertSQLs
        \cup DeleteSQLs \cup {[form |-> "garbage"]}

\* The argument types a call passes: up to MaxArgs of int, bool, null.String
ArgTypeLists == UNION {[1..n -> {TInt, TBool, TNullString}] : n \in 0..MaxArgs}

\* testCall
Call(sql, argTypes) ==
    [SQL |-> sql, ArgTypes |-> argTypes, Package |-> "pkg",
     Pos |-> [Filename |-> "t.go", Line |-> 0, Column |-> 0]]

\* ------------------------------------------------------------------------
\* The extractor (findTaggedCalls): Go syntax trees and type information
\*
\* A Go syntax node is a record with a "kind" field (the ast type) and the
\* Line and Column of its Pos().  An expression carries tv, its entry of
\* pkg.TypesInfo.Types: [ok, IsValue, Value, Type].  An identifier carries
\* Obj, its ast.Object: NoObj for a nil pointer, else [Kind, Decl, Line,
\* Column] with Decl the declaring node.  A *ast.ValueSpec is identified by
\* its id.  Optional results (a *Call, an error) are sequences of length 0
\* or 1.

\* Bounds of the extractor: statements per file after the declarations,
\* files per run
MaxStmts == 2
MaxFiles == 2

\* pkg.Fset.Position(node.Pos()) for a node of file `file`
Position(file, node) ==
    [Filename |-> file, Line |-> node.Line, Column |-> node.Column]

\* The message of a Warn: a text, the name or number formatted into it, and
\* the position that Warn.Error() puts in front when the message is itself
\* the rendering of a Warn (at is <<>> or <<pos>>)
WarnText(text, name, n) == [at |-> <<>>, text |-> text, name |-> name, n |-> n]

Warn(err, pos) == [Err |-> err, Pos |-> pos]

\* Warn.Error(): "file:line:col " followed by the message
WarnError(w) == [w.Err EXCEPT !.at = <<w.Pos>>]

\* go/constant values: nil (no constant), a string, an integer
NoValue == [Kind |-> "nil", Str |-> ""]
StringValue(s) == [Kind |-> "String", Str |-> s]
IntValue == [Kind |-> "Int", Str |-> ""]

\* constant.StringVal: the string of a String, "" for an Unknown, and a
\* panic for anything else (a nil Value included)
StringVal(x) ==
    [panic |-> x.Kind \notin {"String", "Unknown"},
     str |-> IF x.Kind = "String" THEN x.Str ELSE ""]

NoObj == [Kind |-> "nil"]

\* What the extractor's functions return: the constants, calls and warnings
\* found, and whether the function panicked instead of returning
Found(consts, calls, warns) ==
    [consts |-> consts, calls |-> calls, warns |-> warns, panic |-> FALSE]
Crash == [consts |-> <<>>, calls |-> <<>>, warns |-> <<>>, panic |-> TRUE]
FoundNothing == Found(<<>>, <<>>, <<>>)

\* append(a..., b...) on each of the three lists; a panic in either wins
joinFound(a, b) ==
    IF a.panic \/ b.panic THEN Crash
    ELSE Found(a.consts \o b.consts, a.calls \o b.calls, a.warns \o b.warns)

functionWhitelist ==
    << [Name |-> "Exec", HasContext |-> FALSE],
       [Name |-> "ExecContext", HasContext |-> TRUE],
       [Name |-> "Query", HasContext |-> FALSE],
       [Name |-> "QueryContext", HasContext |-> TRUE],
       [Name |-> "QueryRow", HasContext |-> FALSE],
       [Name |-> "QueryRowContext", HasContext |-> TRUE],
       [Name |-> "SQL", HasContext |-> FALSE] >>

\* getSQLFunction: the whitelist entry of the callee's leaf name (fn is <<>>
\* when there is none); panics when the callee is neither an identifier nor
\* a selector
getSQLFunction(expr) ==
    IF expr.Fun.kind \notin {"Ident", "SelectorExpr"}
    THEN [panic |-> TRUE, fn |-> <<>>]
    ELSE [panic |-> FALSE,
          fn |-> SelectSeq(functionWhitelist,
                           LAMBDA w : w.Name = expr.Fun.Name)]

\* The first argument at index `from` or later (1-based) that has no entry
\* in TypesInfo.Types; 0 when every one has
unknownArg(args, from) ==
    FirstIndex([k \in 1..Len(args) |-> k >= from /\ ~args[k].tv.ok])

\* The type strings of the arguments from index `from` on (1-based)
argTypesFrom(args, from) ==
    [k \in 1..(Len(args) - from + 1) |-> args[from + k - 1].tv.Type]

\* ------------------------------------------------------------------------
\* tagCall (the result's calls and warns hold the *Call and the error)

RECURSIVE tagCall(_, _)
RECURSIVE tagCallArgs(_, _)

\* The Call of a whitelisted call expression n with SQL text sql, the
\* argument before its parameters at 0-based index sqlOffset
tagCallTypes(file, n, sqlOffset, sql) ==
    IF unknownArg(n.Args, sqlOffset + 2) # 0
    THEN Found(<<>>, <<>>,
               <<Warn(WarnText("argument %d type unknown", "",
                               unknownArg(n.Args, sqlOffset + 2)),
                      Position(file, n.Args[unknownArg(n.Args, sqlOffset + 2)]))>>)
    ELSE Found(<<>>,
               <<[SQL |-> sql, ArgTypes |-> argTypesFrom(n.Args, sqlOffset + 2),
                  Package |-> "", Pos |-> Position(file, n)]>>,
               <<>>)

\* The SQL text from the TypesInfo entry tv; w is the warning when tv is
\* missing or no value
tagCallValue(file, n, sqlOffset, tv, w) ==
    IF ~tv.ok \/ ~tv.IsValue THEN Found(<<>>, <<>>, <<w>>)
    ELSE IF StringVal(tv.Value).panic THEN Crash
    ELSE tagCallTypes(file, n, sqlOffset, StringVal(tv.Value).str)

\* The switch on the SQL argument arg of the whitelisted call n
tagCallSQL(file, n, sqlOffset, arg) ==
    IF arg.kind = "Ident"
    THEN IF arg.Obj = NoObj THEN Crash
         ELSE IF arg.Obj.Kind # "const"
         THEN Found(<<>>, <<>>,
                    <<Warn(WarnText("argument %q to sql function is not a constant",
                                    arg.Name, 0),
                           Position(file, arg))>>)
         ELSE IF arg.Obj.Decl.kind = "ValueSpec"
         THEN IF arg.Obj.Decl.Values = <<>> THEN Crash
              ELSE tagCallValue(file, n, sqlOffset, arg.Obj.Decl.Values[1].tv,
                                Warn(WarnText("could not find string value for sql statement",
                                              "", 0),
                                     Position(file, arg.Obj.Decl)))
         ELSE Found(<<>>, <<>>,
                    <<Warn(WarnText("declaration of %q is not a value", arg.Name, 0),
                           Position(file, arg.Obj))>>)
    ELSE tagCallValue(file, n, sqlOffset, arg.tv,
                      Warn(WarnText("sql argument to function is not an identifier or a constant string",
                                    "", 0),
                           Position(file, arg)))

\* The whitelisted case: fn is the whitelist entry of n
tagCallWhitelisted(file, n, fn) ==
    IF Len(n.Args) <= (IF fn.HasContext THEN 1 ELSE 0) THEN Crash
    ELSE tagCallSQL(file, n, IF fn.HasContext THEN 1 ELSE 0,
                    n.Args[(IF fn.HasContext THEN 1 ELSE 0) + 1])

\* The CallExpr case: g is what getSQLFunction returned for n
tagCallExpr(file, n, g) ==
    IF g.panic THEN Crash
    ELSE IF g.fn # <<>> THEN tagCallWhitelisted(file, n, g.fn[1])
    ELSE IF n.Fun.kind = "SelectorExpr" /\ n.Fun.X.kind = "CallExpr"
    THEN tagCall(file, n.Fun.X)
    ELSE tagCallArgs(file, n.Args)

\* The loop over the arguments of a wrapping call, r the result of tagCall on
\* the first of them: the first call found is returned, errors are dropped
tagCallArgsRest(file, r, rest) ==
    IF r.panic THEN Crash
    ELSE IF r.calls # <<>> THEN Found(<<>>, r.calls, <<>>)
    ELSE tagCallArgs(file, rest)

tagCallArgs(file, args) ==
    IF args = <<>> THEN FoundNothing
    ELSE tagCallArgsRest(file, tagCall(file, Head(args)), Tail(args))

tagCall(file, node) ==
    IF node.kind = "CallExpr" THEN tagCallExpr(file, node, getSQLFunction(node))
    ELSE IF node.kind = "ExprStmt" THEN tagCall(file, node.X)
    ELSE IF node.kind = "IfStmt" THEN tagCall(file, node.Init)
    ELSE IF node.kind = "AssignStmt" THEN tagCall(file, node.Rhs[1])
    ELSE FoundNothing

\* ------------------------------------------------------------------------
\* tagConstants, tagValueSpecConstants

RECURSIVE tagValueSpecNames(_, _, _)

\* One iteration of tagValueSpecConstants' loop, on the i-th name (1-based);
\* rest is the result of the later iterations
tagValueSpecName(file, valSpec, i, name, rest) ==
    IF name.ObjKind \notin {"nil", "const"}
    THEN joinFound(Found(<<>>, <<>>,
                         <<Warn(WarnText("tagged declaration had obj pointer but was not const",
                                         "", 0),
                                Position(file, name))>>), rest)
    ELSE IF name.Name = "_"
    THEN joinFound(Found(<<>>, <<>>,
                         <<Warn(WarnText("tagged declaration assigned to blank identifier",
                                         "", 0),
                                Position(file, name))>>), rest)
    ELSE IF i > Len(valSpec.Values) THEN Crash
    ELSE IF ~valSpec.Values[i].tv.IsValue
    THEN joinFound(Found(<<>>, <<>>,
                         <<Warn(WarnText("could not determine type for tagged declaration",
                                         "", 0),
                                Position(file, name))>>), rest)
    ELSE IF StringVal(valSpec.Values[i].tv.Value).panic THEN Crash
    ELSE joinFound(Found(<<[Name |-> name.Name,
                            Val |-> StringVal(valSpec.Values[i].tv.Value).str,
                            ValSpec |-> valSpec.id,
                            Pos |-> Position(file, valSpec)]>>, <<>>, <<>>), rest)

tagValueSpecNames(file, valSpec, i) ==
    IF i > Len(valSpec.Names) THEN FoundNothing
    ELSE tagValueSpecName(file, valSpec, i, valSpec.Names[i],
                          tagValueSpecNames(file, valSpec, i + 1))

tagValueSpecConstants(file, valSpec) == tagValueSpecNames(file, valSpec, 1)

RECURSIVE tagConstantsSpecs(_, _)
\* tagConstants' loop over genDec.Specs
tagConstantsSpecs(file, specs) ==
    IF specs = <<>> THEN FoundNothing
    ELSE joinFound(tagValueSpecConstants(file, Head(specs)),
                   tagConstantsSpecs(file, Tail(specs)))

\* A deliberately wrong variant of tagConstants: the token of the
\* declaration is not looked at
tagConstantsAnyTok(file, genDec) == tagConstantsSpecs(file, genDec.Specs)

\* On a declaration that is no const the constants are dropped (return nil)
tagConstants(file, genDec) ==
    IF genDec.Tok # "const"
    THEN Found(<<>>, <<>>,
               <<Warn(WarnText("tagged declaration was not a constant", "", 0),
                      Position(file, genDec))>>)
    ELSE tagConstantsSpecs(file, genDec.Specs)

\* ------------------------------------------------------------------------
\* iterateCommentMap

\* strings.HasPrefix(c.Text(), "sqlboiler:check") for some comment of the node
isTagged(node) ==
    \E i \in 1..Len(node.Comments) :
        /\ Len(node.Comments[i]) >= 1
        /\ node.Comments[i][1] = "sqlboiler:check"

\* What the loop does with the result r of tagCall on the tagged node
taggedCall(file, node, r) ==
    IF r.panic THEN Crash
    ELSE Found(<<>>, r.calls,
               (IF r.warns # <<>>
                THEN <<Warn(WarnError(r.warns[1]), Position(file, node))>>
                ELSE <<>>)
               \o (IF r.calls = <<>>
                   THEN <<Warn(WarnText("failed to find either function or constant after sqlboiler:check tag",
                                        "", 0),
                               Position(file, node))>>
                   ELSE <<>>))

\* The declaration a tagged node stands for: genNode
genNodeOf(node) == IF node.kind = "DeclStmt" THEN node.Decl ELSE node

\* One iteration of iterateCommentMap's loop, on an entry of the comment map
iterateCommentMapNode(file, node) ==
    IF ~isTagged(node) THEN FoundNothing
    ELSE IF genNodeOf(node).kind = "GenDecl" THEN tagConstants(file, genNodeOf(node))
    ELSE IF genNodeOf(node).kind = "ValueSpec"
    THEN tagValueSpecConstants(file, genNodeOf(node))
    ELSE taggedCall(file, node, tagCall(file, node))

\* ------------------------------------------------------------------------
\* tagCallsByConstant

\* The inner loop over consts for one argument: the index of the first
\* constant with the identifier's name and value-spec, 0 when there is none
\* or the argument is no identifier; evaluating ident.Obj.Decl panics when
\* Obj is nil and a constant has the identifier's name
constOfArg(consts, arg) ==
    IF arg.kind # "Ident" THEN [panic |-> FALSE, c |-> 0]
    ELSE IF arg.Obj = NoObj
    THEN [panic |-> \E j \in 1..Len(consts) : consts[j].Name = arg.Name, c |-> 0]
    ELSE [panic |-> FALSE,
          c |-> FirstIndex([j \in 1..Len(consts) |->
                              /\ consts[j].Name = arg.Name
                              /\ arg.Obj.Decl.kind = "ValueSpec"
                              /\ arg.Obj.Decl.id = consts[j].ValSpec])]

\* The loop over callExpr.Args: it runs to the end, so constIndex is the
\* last argument that matched (1-based, 0 when none did) and constVal that
\* argument's constant
constOfCall(consts, args) ==
    [panic |-> \E i \in 1..Len(args) : constOfArg(consts, args[i]).panic,
     constIndex |->
        IF \E i \in 1..Len(args) : constOfArg(consts, args[i]).c # 0
        THEN CHOOSE i \in 1..Len(args) :
                /\ constOfArg(consts, args[i]).c # 0
                /\ \A j \in (i+1)..Len(args) : constOfArg(consts, args[j]).c = 0
        ELSE 0]

\* The children ast.Walk visits after a node, in its order
children(node) ==
    IF node.kind = "CallExpr"
    THEN (IF node.Fun.kind = "SelectorExpr" THEN <<node.Fun.X>> ELSE <<>>) \o node.Args
    ELSE IF node.kind = "ExprStmt" THEN <<node.X>>
    ELSE IF node.kind = "IfStmt" THEN <<node.Init>>
    ELSE IF node.kind = "AssignStmt" THEN node.Rhs
    ELSE IF node.kind = "DeclStmt" THEN <<node.Decl>>
    ELSE IF node.kind = "GenDecl" THEN node.Specs
    ELSE IF node.kind = "ValueSpec" THEN node.Values
    ELSE <<>>

RECURSIVE walk(_, _, _)
RECURSIVE walkList(_, _, _)

\* The visitor on a call expression that uses a tagged constant at argument
\* k (1-based); g is what getSQLFunction returned
walkTagged(file, consts, callExpr, k, g) ==
    IF g.panic THEN Crash
    ELSE IF g.fn = <<>>
    THEN joinFound(Found(<<>>, <<>>,
                         <<Warn(WarnText("tagged constant used in non-sql function", "", 0),
                                Position(file, callExpr.Args[k]))>>),
                   walkList(file, consts, children(callExpr)))
    ELSE IF unknownArg(callExpr.Args, k + 1) # 0
    THEN joinFound(Found(<<>>, <<>>,
                         <<Warn(WarnText("argument %d type unknown", "",
                                         unknownArg(callExpr.Args, k + 1) - 1),
                                Position(file, callExpr.Args[unknownArg(callExpr.Args, k + 1)]))>>),
                   walkList(file, consts, children(callExpr)))
    ELSE Found(<<>>,
               <<[SQL |-> consts[constOfArg(consts, callExpr.Args[k]).c].Val,
                  ArgTypes |-> argTypesFrom(callExpr.Args, k + 1),
                  Package |-> "", Pos |-> Position(file, callExpr)]>>,
               <<>>)

\* The visitor on a call expression; m is what the argument loop found
walkCallExpr(file, consts, callExpr, m) ==
    IF m.panic THEN Crash
    ELSE IF m.constIndex = 0 THEN walkList(file, consts, children(callExpr))
    ELSE walkTagged(file, consts, callExpr, m.constIndex, getSQLFunction(callExpr))

walkList(file, consts, nodes) ==
    IF nodes = <<>> THEN FoundNothing
    ELSE joinFound(walk(file, consts, Head(nodes)),
                   walkList(file, consts, Tail(nodes)))

\* ast.Walk(walkFn, node)
walk(file, consts, node) ==
    IF node.kind = "CallExpr"
    THEN walkCallExpr(file, consts, node, constOfCall(consts, node.Args))
    ELSE walkList(file, consts, children(node))

tagCallsByConstant(file, consts) == walkList(file.Name, consts, file.Nodes)

\* ------------------------------------------------------------------------
\* The sorts of findTaggedCalls

\* Go's < on the strings the model uses for package paths and file names
StringLess(a, b) ==
    \/ a = "a" /\ b \in {"b", "f.go", "g.go"}
    \/ a = "b" /\ b \in {"f.go", "g.go"}
    \/ a = "f.go" /\ b = "g.go"

\* A deliberately wrong variant of warnLess: the lines are not compared
warnLessNoLine(ci, cj) ==
    IF StringLess(ci.Pos.Filename, cj.Pos.Filename) THEN TRUE
    ELSE IF StringLess(cj.Pos.Filename, ci.Pos.Filename) THEN FALSE
    ELSE IF ci.Pos.Column < cj.Pos.Column THEN TRUE
    ELSE FALSE

warnLess(ci, cj) ==
    IF StringLess(ci.Pos.Filename, cj.Pos.Filename) THEN TRUE
    ELSE IF StringLess(cj.Pos.Filename, ci.Pos.Filename) THEN FALSE
    ELSE IF ci.Pos.Line < cj.Pos.Line THEN TRUE
    ELSE IF ci.Pos.Line > cj.Pos.Line THEN FALSE
    ELSE IF ci.Pos.Column < cj.Pos.Column THEN TRUE
    ELSE FALSE

callLess(ci, cj) ==
    IF StringLess(ci.Package, cj.Package) THEN TRUE
    ELSE IF StringLess(cj.Package, ci.Package) THEN FALSE
    ELSE warnLess(ci, cj)

\* sort.Slice makes no promise about the order of elements that compare
\* equal: every arrangement of the list in which no element is less than an
\* earlier one is a possible result
sortCalls(calls) ==
    { [i \in 1..Len(calls) |-> calls[p[i]]] :
        p \in { q \in Permutations(1..Len(calls)) :
                  \A i, j \in 1..Len(calls) :
                      i < j => ~callLess(calls[q[j]], calls[q[i]]) } }

sortWarns(warns) ==
    { [i \in 1..Len(warns) |-> warns[p[i]]] :
        p \in { q \in Permutations(1..Len(warns)) :
                  \A i, j \in 1..Len(warns) :
                      i < j => ~warnLess(warns[q[j]], warns[q[i]]) } }

\* fileCalls[i].Package = pkg.PkgPath
setPackage(fileCalls, pkgPath) ==
    [i \in 1..Len(fileCalls) |-> [fileCalls[i] EXCEPT !.Package = pkgPath]]

\* ------------------------------------------------------------------------
\* Inputs of the extractor: files in the manner of testpackage/main.go
\*
\* Every file declares, in this order,
\*    1  var one = <sql>
\*    2  const two = <sql>
\*    3  const (
\*    4      four, five = <sql>, <sql>
\*       )
\*    5  const two = <sql>            (inside main: shadows the two of line 2)
\*    6  var (
\*    7      six = <sql>
\*       )
\* followed by statements of main, one per line from line 8.  A descriptor
\* of a file names the declarations that carry the marker comment and, for
\* each statement, its form and its comment.

\* TypesInfo.Types entries
TV(type, value) == [ok |-> TRUE, IsValue |-> TRUE, Value |-> value, Type |-> type]

\* The comment groups of a node: none, the marker, another comment
Comments(c) ==
    IF c = "check" THEN << <<"sqlboiler:check">> >>
    ELSE IF c = "note" THEN << <<"one", "is", "a", "var">> >>
    ELSE <<>>

BasicLit(sql, line, col) ==
    [kind |-> "BasicLit", tv |-> TV(TString, StringValue(sql)),
     Line |-> line, Column |-> col]

ValueSpec(id, names, values, line, col, c) ==
    [kind |-> "ValueSpec", id |-> id, Names |-> names, Values |-> values,
     Comments |-> Comments(c), Line |-> line, Column |-> col]

GenDecl(tok, specs, line, c) ==
    [kind |-> "GenDecl", Tok |-> tok, Specs |-> specs,
     Comments |-> Comments(c), Line |-> line, Column |-> 1]

DeclStmt(decl, c) ==
    [kind |-> "DeclStmt", Decl |-> decl, Comments |-> Comments(c),
     Line |-> decl.Line, Column |-> decl.Column]

\* A name of a value-spec: an *ast.Ident with the Kind of its Obj
SpecName(name, objKind, line, col) ==
    [Name |-> name, ObjKind |-> objKind, Line |-> line, Column |-> col]

\* The SQL texts of the constants, from the corpus of the checker
SQLOne == [form |-> "select", target |-> "id", from |-> "users",
           where |-> "id = $1", tail |-> ""]
SQLTwo == [form |-> "select", target |-> "id", from |-> "users",
           where |-> "", tail |-> ""]
SQLFour == [form |-> "select", target |-> "id", from |-> "users, videos",
            where |-> "", tail |-> ""]
SQLFive == [form |-> "garbage"]
SQLLocal == [form |-> "select", target |-> "name as n", from |-> "users",
             where |-> "", tail |-> ""]
SQLLit == [form |-> "select", target |-> "id", from |-> "comments",
           where |-> "comment = $1", tail |-> ""]

\* The value-specs; c is the comment of those a comment can sit on
SpecOne == ValueSpec("one", <<SpecName("one", "var", 1, 5)>>,
                     <<BasicLit(SQLOne, 1, 11)>>, 1, 5, "")
SpecTwo == ValueSpec("two", <<SpecName("two", "const", 2, 7)>>,
                     <<BasicLit(SQLTwo, 2, 13)>>, 2, 7, "")
SpecFourFive(c) ==
    ValueSpec("fourfive",
              <<SpecName("four", "const", 4, 2), SpecName("five", "const", 4, 8)>>,
              <<BasicLit(SQLFour, 4, 15), BasicLit(SQLFive, 4, 21)>>, 4, 2, c)
SpecLocal == ValueSpec("local", <<SpecName("two", "const", 5, 8)>>,
                       <<BasicLit(SQLLocal, 5, 14)>>, 5, 8, "")
SpecSix(c) == ValueSpec("six", <<SpecName("six", "var", 7, 2)>>,
                        <<BasicLit(SQLLit, 7, 8)>>, 7, 2, c)

\* The comment of declaration d under the set `tags` of tagged declarations
TagOf(tags, d) == IF d \in tags THEN "check" ELSE ""

Decls(tags) ==
    << GenDecl("var", <<SpecOne>>, 1, TagOf(tags, "one")),
       GenDecl("const", <<SpecTwo>>, 2, TagOf(tags, "two")),
       GenDecl("const", <<SpecFourFive(TagOf(tags, "fourfive"))>>, 3, ""),
       DeclStmt(GenDecl("const", <<SpecLocal>>, 5, ""), TagOf(tags, "local")),
       GenDecl("var", <<SpecSix(TagOf(tags, "six"))>>, 6, "") >>

\* An identifier that refers to the i-th name of value-spec `spec`
IdentOf(name, objKind, spec, i, type, line, col) ==
    [kind |-> "Ident", Name |-> name,
     Obj |-> [Kind |-> objKind, Decl |-> spec, Line |-> spec.Line,
              Column |-> spec.Column],
     tv |-> TV(type, IF objKind = "const" THEN spec.Values[i].tv.Value ELSE NoValue),
     Line |-> line, Column |-> col]

\* The variables id and ctx of main, declared by assignment
LocalVar(name, type, line, col) ==
    [kind |-> "Ident", Name |-> name,
     Obj |-> [Kind |-> "var", Decl |-> [kind |-> "AssignStmt"], Line |-> 6,
              Column |-> 2],
     tv |-> TV(type, NoValue), Line |-> line, Column |-> col]

\* db.<name>(args) at column col; type is the type of its result
Method(name, args, type, line, col) ==
    [kind |-> "CallExpr",
     Fun |-> [kind |-> "SelectorExpr", Name |-> name,
              X |-> LocalVar("db", <<"*", "sql", ".", "DB">>, line, col)],
     Args |-> args, tv |-> TV(type, NoValue), Line |-> line, Column |-> col]

\* <name>(args): a call of a function of the package
Func(name, args, line, col) ==
    [kind |-> "CallExpr", Fun |-> [kind |-> "Ident", Name |-> name], Args |-> args,
     tv |-> TV(<<"error">>, NoValue), Line |-> line, Column |-> col]

ExprStmt(x, c) ==
    [kind |-> "ExprStmt", X |-> x, Comments |-> Comments(c),
     Line |-> x.Line, Column |-> x.Column]

AssignStmt(rhs, line, c) ==
    [kind |-> "AssignStmt", Rhs |-> rhs, Comments |-> Comments(c),
     Line |-> line, Column |-> 1]

IfStmt(init, line, c) ==
    [kind |-> "IfStmt", Init |-> init, Comments |-> Comments(c),
     Line |-> line, Column |-> 1]

TResult == <<"database", "/", "sql", ".", "Result">>

\* The statement of form `form` on line l with comment c
Stmt(form, l, c) ==
    CASE form = "if _, err = db.Exec(one, id); err != nil {}" ->
           IfStmt(AssignStmt(<<Method("Exec",
                                      <<IdentOf("one", "var", SpecOne, 1, TString, l, 22),
                                        LocalVar("id", TInt, l, 27)>>,
                                      TResult, l, 14)>>, l, ""), l, c)
      [] form = "db.Exec(two, id)" ->
           ExprStmt(Method("Exec", <<IdentOf("two", "const", SpecTwo, 1, TString, l, 9),
                                     LocalVar("id", TInt, l, 14)>>, TResult, l, 1), c)
      [] form = "_, err = wrapped(db.Exec(two, id))" ->
           AssignStmt(<<Func("wrapped",
                             <<Method("Exec",
                                      <<IdentOf("two", "const", SpecTwo, 1, TString, l, 26),
                                        LocalVar("id", TInt, l, 31)>>,
                                      TResult, l, 18)>>, l, 10)>>, l, c)
      [] form = "db.QueryRowContext(ctx, two, id).Scan(&x)" ->
           ExprStmt([kind |-> "CallExpr",
                     Fun |-> [kind |-> "SelectorExpr", Name |-> "Scan",
                              X |-> Method("QueryRowContext",
                                           <<LocalVar("ctx", <<"context", ".", "Context">>, l, 20),
                                             IdentOf("two", "const", SpecTwo, 1, TString, l, 25),
                                             LocalVar("id", TInt, l, 30)>>,
                                           <<"*", "sql", ".", "Row">>, l, 1)],
                     Args |-> <<[kind |-> "UnaryExpr", tv |-> TV(<<"*", "int">>, NoValue),
                                 Line |-> l, Column |-> 39]>>,
                     tv |-> TV(<<"error">>, NoValue), Line |-> l, Column |-> 1], c)
      [] form = "db.Exec(<literal>, id)" ->
           ExprStmt(Method("Exec", <<BasicLit(SQLLit, l, 9),
                                     LocalVar("id", TInt, l, 62)>>, TResult, l, 1), c)
      [] form = "db.Exec(two, four)" ->
           ExprStmt(Method("Exec", <<IdentOf("two", "const", SpecTwo, 1, TString, l, 9),
                                     IdentOf("four", "const", SpecFourFive(""), 1, TString, l, 14)>>,
                           TResult, l, 1), c)
      [] form = "log(two)" ->
           ExprStmt(Func("log", <<IdentOf("two", "const", SpecTwo, 1, TString, l, 5)>>, l, 1), c)
      [] form = "db.Exec(five, id)" ->
           ExprStmt(Method("Exec", <<IdentOf("five", "const", SpecFourFive(""), 2, TString, l, 9),
                                     LocalVar("id", TInt, l, 15)>>, TResult, l, 1), c)
      [] form = "db.Exec(two, db.QueryRow(four, id))" ->
           ExprStmt(Method("Exec",
                           <<IdentOf("two", "const", SpecTwo, 1, TString, l, 9),
                             Method("QueryRow",
                                    <<IdentOf("four", "const", SpecFourFive(""), 1, TString, l, 26),
                                      LocalVar("id", TInt, l, 32)>>,
                                    <<"*", "sql", ".", "Row">>, l, 14)>>,
                           TResult, l, 1), c)
      [] form = "db.Exec(two, id) with the two of main" ->
           ExprStmt(Method("Exec", <<IdentOf("two", "const", SpecLocal, 1, TString, l, 9),
                                     LocalVar("id", TInt, l, 14)>>, TResult, l, 1), c)
      [] form = "x := <literal>" ->
           AssignStmt(<<BasicLit(SQLTwo, l, 6)>>, l, c)

Forms ==
    { "if _, err = db.Exec(one, id); err != nil {}",
      "db.Exec(two, id)",
      "_, err = wrapped(db.Exec(two, id))",
      "db.QueryRowContext(ctx, two, id).Scan(&x)",
      "db.Exec(<literal>, id)",
      "db.Exec(two, four)",
      "log(two)",
      "db.Exec(five, id)",
      "db.Exec(two, db.QueryRow(four, id))",
      "db.Exec(two, id) with the two of main",
      "x := <literal>" }

\* The line of the first statement of main: the one after the last declaration
FirstStmtLine == SpecSix("").Line + 1

\* The *ast.File of a descriptor: its name and its top-level nodes in order
File(name, d) ==
    [Name |-> name,
     Nodes |-> Decls(d.tags)
               \o [i \in 1..Len(d.stmts) |->
                     Stmt(d.stmts[i].form, FirstStmtLine + i - 1, d.stmts[i].comment)]]

\* ast.NewCommentMap: the nodes of the file that comments are attached to
commentMap(file) ==
    {file.Nodes[i] : i \in {j \in 1..Len(file.Nodes) : file.Nodes[j].Comments # <<>>}}
    \cup UNION { {n.Specs[i] : i \in {j \in 1..Len(n.Specs) : n.Specs[j].Comments # <<>>}} :
                 n \in {file.Nodes[k] : k \in {j \in 1..Len(file.Nodes) :
                                                 file.Nodes[j].kind = "GenDecl"}} }

\* The sets of tagged declarations the corpus covers
DeclTagSets ==
    { {}, {"one"}, {"two"}, {"fourfive"}, {"two", "fourfive"}, {"local"},
      {"two", "local"}, {"six"} }

StmtDescs ==
    [form : Forms, comment : {"", "check"}]
    \cup [form : {"if _, err = db.Exec(one, id); err != nil {}"}, comment : {"note"}]

\* The files of the corpus: every tag set under up to MaxStmts statements
FileDescs ==
    [tags : DeclTagSets, stmts : UNION {[1..n -> StmtDescs] : n \in 0..MaxStmts}]

\* The files of the runs over several files
SmallFileDescs ==
    [tags : {{}, {"one"}, {"two"}},
     stmts : { <<>>,
               <<[form |-> "db.Exec(two, id)", comment |-> ""]>>,
               <<[form |-> "db.Exec(five, id)", comment |-> "check"]>>,
               <<[form |-> "if _, err = db.Exec(one, id); err != nil {}",
                  comment |-> "check"]>> }]

\* A *packages.Package: its path and its files
Package(path, files) == [PkgPath |-> path, Syntax |-> files]

\* The package lists findTaggedCalls is run on: one file of the corpus, or
\* 2..MaxFiles small files spread over the packages a and b in any order
Pkgs ==
    { <<Package("a", <<File("f.go", d)>>)>> : d \in FileDescs }
    \cup { <<Package(p, <<File(n[1], d[1]), File(n[2], d[2])>>)>> :
             p \in {"a", "b"},
             n \in {<<"f.go", "g.go">>, <<"g.go", "f.go">>},
             d \in [1..2 -> SmallFileDescs] }
    \cup { <<Package(p[1], <<File(n[1], d[1])>>), Package(p[2], <<File(n[2], d[2])>>)>> :
             p \in {<<"a", "b">>, <<"b", "a">>},
             n \in [1..2 -> {"f.go", "g.go"}],
             d \in [1..2 -> SmallFileDescs] }
    \cup { <<Package(p[1], <<File(n[1], d[1]), File(n[2], d[2])>>),
             Package(p[2], <<File(n[3], d[3])>>)>> :
             p \in {<<"a", "b">>, <<"b", "a">>},
             n \in {q \in [1..3 -> {"f.go", "g.go"}] : q[1] # q[2] /\ MaxFiles >= 3},
             d \in [1..3 -> {e \in SmallFileDescs : e.tags = {"two"}}] }

\* ------------------------------------------------------------------------
\* State of the model

VARIABLES
    \* Scope component: one Scope object under a sequence of operations
    scope,      \* the Scope
    isClone,    \* whether the object was made by clone rather than NewScope
    pushed,     \* history: [name, alias] as supplied for each entry on the stack
    last,       \* the most recent operation on the scope: what it was given,
                \* what it returned and, for pushTable, the stacks before it
    \* Checker component: one run of the checker
    phase,      \* "idle", or the function that ran
    state,      \* the State it ran with
    fns,        \* the calls it was given
    errs,       \* the diagnostics it returned
    panicked,   \* whether it panicked instead of returning
    scopeIn,    \* the scope a statement's check was entered with
    scopeOut,   \* the scope of each checked statement when its check returned
    \* Extractor component: one run of findTaggedCalls
    pkgs,       \* the packages it was given
    stage,      \* "start", the part of findTaggedCalls that is running, "done",
                \* or "panic" when it panicked
    at,         \* the package and file its loops are at
    cm,         \* the entries of the file's comment map not yet ranged over
    consts,     \* iterateCommentMap's consts of the file
    fileCalls,  \* the calls of the file so far
    fileWarns,  \* the warnings of the file so far
    calls,      \* the calls of the files done (sorted once stage is "done")
    warns,      \* the warnings of the files done (likewise)
    \* main: the printing loop
    flagVerbose,    \* -verbose
    printed,        \* printed[i]: errs[i] has been printed
    out,            \* the lines written to standard output
    pkgIdx,         \* the package the outer loop is at (0: not started)
    errIdx,         \* the diagnostic the inner loop is at (0: before it)
    printedPackage  \* the package's header has been printed

scopeVars == <<scope, isClone, pushed, last>>
checkVars == <<phase, state, fns, errs, panicked, scopeIn, scopeOut>>
extractVars == <<pkgs, stage, at, cm, consts, fileCalls, fileWarns, calls, warns>>
mainVars == <<flagVerbose, printed, out, pkgIdx, errIdx, printedPackage>>
vars == <<scope, isClone, pushed, last, phase, state, fns, errs, panicked,
          scopeIn, scopeOut, pkgs, stage, at, cm, consts, fileCalls, fileWarns,
          calls, warns, flagVerbose, printed, out, pkgIdx, errIdx, printedPackage>>

\* The catalog the Scope component runs over
ScopeDB ==
    [Tables |-> <<
        Table("public", "x", <<Column("id", TInt, "integer"),
                               Column("name", TString, "text")>>),
        Table("public", "z", <<Column("id", TInt, "integer"),
                               Column("col", TString, "text")>>)>>]

NoOp == [op |-> "none"]

Init ==
    /\ scope = NewScope(ScopeDB)
    /\ isClone = FALSE
    /\ pushed = <<>>
    /\ last = NoOp
    /\ phase = "idle"
    /\ state = [DBInfo |-> EmptyDB, Imports |-> NoImports]
    /\ fns = <<>>
    /\ errs = <<>>
    /\ panicked = FALSE
    /\ scopeIn = NewScope(EmptyDB)
    /\ scopeOut = <<>>
    /\ pkgs = <<>>
    /\ stage = "start"
    /\ at = [pkg |-> 1, file |-> 1]
    /\ cm = {}
    /\ consts = <<>>
    /\ fileCalls = <<>>
    /\ fileWarns = <<>>
    /\ calls = <<>>
    /\ warns = <<>>
    /\ flagVerbose = FALSE
    /\ printed = <<>>
    /\ out = <<>>
    /\ pkgIdx = 0
    /\ errIdx = 0
    /\ printedPackage = FALSE

\* ------------------------------------------------------------------------
\* Actions of the checker component

\* checkCalls(state, []Call{fn})
CheckCalls ==
    /\ phase = "idle"
    /\ \E st \in States, sql \in SQLs, args \in ArgTypeLists :
        \E r \in {checkCalls(st, <<Call(sql, args)>>)} :
           /\ phase' = "checkCalls"
           /\ state' = st
           /\ fns' = <<Call(sql, args)>>
           /\ errs' = r.errs
           /\ panicked' = r.panic
           /\ scopeIn' = NewScope(st.DBInfo)
           /\ scopeOut' = r.scopes
           /\ UNCHANGED <<scopeVars, extractVars, mainVars>>

\* Scopes a nested statement (a sub-link, a set operation's operand) is
\* entered with: what an enclosing select has pushed by then
EntryScopes(info) ==
    LET s0 == NewScope(info)
        s1 == pushTable(s0, "", "users", "u").scope
        s2 == pushOutputName(pushTable(s1, "", "videos", "").scope, "hello", NilCol)
    IN {s1, s2}

NestedSQLs ==
    {d \in SelectSQLs : d.tail # "" \/ d.where = ""} \cup UnionSQLs \cup UpdateSQLs
    \cup InsertSQLs \cup DeleteSQLs

\* checkCallRecurse(state, fn, scope, stmt) on a scope that is not empty
CheckNested ==
    /\ phase = "idle"
    /\ \E st \in [DBInfo : {TestDB}, Imports : {NoImports}], sql \in NestedSQLs,
          entry \in EntryScopes(TestDB) :
        \E r \in {checkCallRecurse(st, Call(sql, <<>>), entry,
                                   Parse(sql).Statements[1].Stmt)} :
           /\ phase' = "checkCallRecurse"
           /\ state' = st
           /\ fns' = <<Call(sql, <<>>)>>
           /\ errs' = r.errs
           /\ panicked' = r.panic
           /\ scopeIn' = entry
           /\ scopeOut' = <<r.scope>>
           /\ UNCHANGED <<scopeVars, extractVars, mainVars>>

\* The selects whose WHERE clause is one binary expression
TypeCheckSQLs == {d \in SelectSQLs : WhereFrag(d.where, 0).node.kind = "A_Expr"}

\* The WHERE clause of the select typeCheck was applied to
TypeCheckExpr(sql) == ParseSelectAt(sql, 0).stmt.WhereClause

\* typeCheck(state, fn, scope, Lexpr, Rexpr) as the A_Expr case calls it on a
\* select's WHERE clause: on the scope the select's FROM clause has built
TypeCheck ==
    /\ phase = "idle"
    /\ \E st \in States, sql \in TypeCheckSQLs, args \in ArgTypeLists :
        \E fr \in {fromLoop(st, Call(sql, args), NewScope(st.DBInfo),
                            ParseSelectAt(sql, 0).stmt.FromClause)} :
           /\ ~fr.panic
           /\ \E r \in {typeCheck(st, Call(sql, args), fr.scope,
                                   TypeCheckExpr(sql).Lexpr, TypeCheckExpr(sql).Rexpr)} :
                /\ phase' = "typeCheck"
                /\ state' = st
                /\ fns' = <<Call(sql, args)>>
                /\ errs' = r.errs
                /\ panicked' = r.panic
                /\ scopeIn' = fr.scope
                /\ scopeOut' = <<fr.scope>>
                /\ UNCHANGED <<scopeVars, extractVars, mainVars>>

\* ------------------------------------------------------------------------
\* Lists of calls as findTaggedCalls returns them, for checkCalls and main

\* Most calls in a list
MaxCalls == 2

\* The call sites of the lists: an SQL text with the types of its arguments
CallSites ==
    { [sql |-> SQLTwo, args |-> <<>>],
      [sql |-> SQLFour, args |-> <<>>],
      [sql |-> SQLFive, args |-> <<>>],
      [sql |-> SQLOne, args |-> <<TBool>>],
      [sql |-> SQLLit, args |-> <<TNullString>>],
      [sql |-> [form |-> "select", target |-> "*", from |-> "users",
                where |-> "", tail |-> ""], args |-> <<>>] }

\* The Call of call site c of package p in f.go, on line l
CallAt(c, p, l) ==
    [SQL |-> c.sql, ArgTypes |-> c.args, Package |-> p,
     Pos |-> [Filename |-> "f.go", Line |-> l, Column |-> 1]]

\* The lists of up to MaxCalls calls of the packages ps, one call per line,
\* in the order findTaggedCalls sorts them into
CallLists(ps) ==
    UNION { { [i \in 1..n |-> CallAt(c[i], p[i], i)] :
                c \in [1..n -> CallSites],
                p \in {q \in [1..n -> ps] :
                         \A i, j \in 1..n : i < j => ~StringLess(q[j], q[i])} } :
            n \in 0..MaxCalls }

\* checkCalls(state, fns) on a list of calls of the packages a and b
CheckCallList ==
    /\ phase = "idle"
    /\ \E st \in [DBInfo : {TestDB, EmptyDB}, Imports : {NoImports}],
          cs \in CallLists({"a", "b"}) :
        \E r \in {checkCalls(st, cs)} :
           /\ phase' = "checkCallList"
           /\ state' = st
           /\ fns' = cs
           /\ errs' = r.errs
           /\ panicked' = r.panic
           /\ scopeIn' = NewScope(st.DBInfo)
           /\ scopeOut' = r.scopes
    /\ UNCHANGED <<scopeVars, extractVars, mainVars>>

NextCheck == CheckCalls \/ CheckNested \/ TypeCheck \/ CheckCallList

Spec == Init /\ [][NextCheck]_vars

\* ------------------------------------------------------------------------
\* Actions of the Scope component

ScopeSchemas == {"", "other"}
ScopeTables == {"x", "z", "nope"}
ScopeAliases == {"", "x", "y"}
ScopeColumns == {"id", "col", "o"}

\* A sub-select's outputs (id, id) as a pseudo-table
PseudoTables ==
    {outputColsToPseudoTable("y",
        <<[name |-> "id", col |-> PtrCol(Column("id", TInt, "integer"))],
          [name |-> "id", col |-> NilCol]>>)}

OutputNames ==
    {[name |-> "o", col |-> NilCol],
     [name |-> "col", col |-> NilCol],
     [name |-> "id", col |-> PtrCol(Column("id", TInt, "integer"))]}

\* The lookups made: an unqualified column, a table.column, or a
\* schema.table.column under the catalog's schema and under another
Lookups ==
    [schema : {""}, table : {""}, column : ScopeColumns]
    \cup [schema : {""}, table : {"x", "y", "z"}, column : {"id", "col"}]
    \cup [schema : {"public", "other"}, table : {"x", "y"}, column : {"id"}]

DoNewScope ==
    /\ scope' = NewScope(ScopeDB)
    /\ isClone' = FALSE
    /\ pushed' = <<>>
    /\ last' = NoOp
    /\ UNCHANGED <<checkVars, extractVars, mainVars>>

DoClone ==
    /\ scope' = clone(scope)
    /\ isClone' = TRUE
    /\ last' = NoOp
    /\ UNCHANGED <<pushed, checkVars, extractVars, mainVars>>

DoPushTable ==
    \E schema \in ScopeSchemas, table \in ScopeTables, alias \in ScopeAliases :
        LET r == pushTable(scope, schema, table, alias)
        IN /\ Len(scope.tables) < MaxTables
           /\ scope' = r.scope
           /\ pushed' = IF r.ok THEN Append(pushed, [name |-> table, alias |-> alias])
                        ELSE pushed
           /\ last' = [op |-> "pushTable", ok |-> r.ok,
                       tables |-> scope.tables, aliases |-> scope.aliases]
           /\ UNCHANGED <<isClone, checkVars, extractVars, mainVars>>

DoPushPseudoTable ==
    \E data \in PseudoTables :
        /\ Len(scope.tables) < MaxTables
        /\ scope' = pushPseudoTable(scope, data.Name, data)
        /\ pushed' = Append(pushed, [name |-> data.Name, alias |-> data.Name])
        /\ last' = NoOp
        /\ UNCHANGED <<isClone, checkVars, extractVars, mainVars>>

\* Callers pop only what they pushed
DoPopTable ==
    /\ Len(scope.tables) > 0
    /\ scope' = popTable(scope)
    /\ pushed' = DropLast(pushed)
    /\ last' = NoOp
    /\ UNCHANGED <<isClone, checkVars, extractVars, mainVars>>

DoPushOutputName ==
    \E o \in OutputNames :
        /\ Len(scope.outputNames) < MaxOutputNames
        /\ scope' = pushOutputName(scope, o.name, o.col)
        /\ last' = NoOp
        /\ UNCHANGED <<isClone, pushed, checkVars, extractVars, mainVars>>

DoPopOutputName ==
    /\ Len(scope.outputNames) > 0
    /\ scope' = popOutputName(scope)
    /\ last' = NoOp
    /\ UNCHANGED <<isClone, pushed, checkVars, extractVars, mainVars>>

DoGet ==
    \E q \in Lookups :
        LET r == get(scope, q.schema, q.table, q.column)
        IN /\ last' = [op |-> "get", schema |-> q.schema, table |-> q.table,
                       column |-> q.column, col |-> r.col, ret |-> r.ret]
           /\ UNCHANGED <<scope, isClone, pushed, checkVars, extractVars, mainVars>>

DoHas ==
    \E q \in Lookups :
        /\ last' = [op |-> "has", schema |-> q.schema, table |-> q.table,
                    column |-> q.column,
                    ret |-> has(scope, q.schema, q.table, q.column)]
        /\ UNCHANGED <<scope, isClone, pushed, checkVars, extractVars, mainVars>>

NextScope ==
    \/ DoNewScope
    \/ DoClone
    \/ DoPushTable
    \/ DoPushPseudoTable
    \/ DoPopTable
    \/ DoPushOutputName
    \/ DoPopOutputName
    \/ DoGet
    \/ DoHas

SpecScope == Init /\ [][NextScope]_vars

\* ------------------------------------------------------------------------
\* Actions of the extractor: one run of findTaggedCalls

\* The file the loops of findTaggedCalls are at
FileAt(ps, a) == ps[a.pkg].Syntax[a.file]

\* The position of the next file in the nested loops; pkg is beyond the list
\* when there is none
NextFile(ps, a) ==
    IF a.file < Len(ps[a.pkg].Syntax) THEN [pkg |-> a.pkg, file |-> a.file + 1]
    ELSE [pkg |-> a.pkg + 1, file |-> 1]

\* packages.Load has returned; the comment map of the first file is built
LoadPackages ==
    /\ stage = "start"
    /\ \E ps \in Pkgs :
         /\ pkgs' = ps
         /\ at' = [pkg |-> 1, file |-> 1]
         /\ cm' = commentMap(FileAt(ps, [pkg |-> 1, file |-> 1]))
    /\ stage' = "iterateCommentMap"
    /\ UNCHANGED <<consts, fileCalls, fileWarns, calls, warns>>
    /\ UNCHANGED <<scopeVars, checkVars, mainVars>>

\* One iteration of the loop of iterateCommentMap.  The loop ranges over a
\* Go map: the entries come in any order
IterateCommentMap ==
    /\ stage = "iterateCommentMap"
    /\ \E node \in cm :
        \E r \in {iterateCommentMapNode(FileAt(pkgs, at).Name, node)} :
           /\ stage' = IF r.panic THEN "panic" ELSE stage
           /\ cm' = cm \ {node}
           /\ consts' = consts \o r.consts
           /\ fileCalls' = fileCalls \o r.calls
           /\ fileWarns' = fileWarns \o r.warns
    /\ UNCHANGED <<pkgs, at, calls, warns>>
    /\ UNCHANGED <<scopeVars, checkVars, mainVars>>

\* The rest of the body of findTaggedCalls' loop for the file, once
\* iterateCommentMap has returned: the re-scan, the Package of the calls,
\* the appends; then the comment map of the next file
TagCallsByConstant ==
    /\ stage = "iterateCommentMap"
    /\ cm = {}
    /\ \E r \in {tagCallsByConstant(FileAt(pkgs, at), consts)} :
         IF r.panic
         THEN /\ stage' = "panic"
              /\ UNCHANGED <<at, cm, consts, fileCalls, fileWarns, calls, warns>>
         ELSE /\ calls' = calls \o setPackage(fileCalls \o r.calls, pkgs[at.pkg].PkgPath)
              /\ warns' = warns \o fileWarns \o r.warns
              /\ at' = NextFile(pkgs, at)
              /\ IF NextFile(pkgs, at).pkg <= Len(pkgs)
                 THEN /\ stage' = stage
                      /\ cm' = commentMap(FileAt(pkgs, NextFile(pkgs, at)))
                      /\ consts' = <<>>
                      /\ fileCalls' = <<>>
                      /\ fileWarns' = <<>>
                 ELSE /\ stage' = "sort"
                      /\ UNCHANGED <<cm, consts, fileCalls, fileWarns>>
    /\ UNCHANGED pkgs
    /\ UNCHANGED <<scopeVars, checkVars, mainVars>>

\* The two sort.Slice calls and the return
SortResults ==
    /\ stage = "sort"
    /\ \E cs \in sortCalls(calls), ws \in sortWarns(warns) :
         /\ calls' = cs
         /\ warns' = ws
    /\ stage' = "done"
    /\ UNCHANGED <<pkgs, at, cm, consts, fileCalls, fileWarns>>
    /\ UNCHANGED <<scopeVars, checkVars, mainVars>>

NextExtract == LoadPackages \/ IterateCommentMap \/ TagCallsByConstant \/ SortResults

SpecExtract == Init /\ [][NextExtract]_vars

\* ------------------------------------------------------------------------
\* The printing loop of main

\* The Error() string of a diagnostic, as far as its start goes: at is the
\* position it begins with (<<>> when it begins with none)
Error(e) ==
    IF e.type \in {"IdentErr", "TypeErr", "ParseError"}
    THEN [at |-> <<e.Fn.Pos>>, text |-> e.type]
    ELSE [at |-> <<>>, text |-> e.msg]

\* fmt.Printf("# %s\n", pkg.PkgPath)
HeaderLine(pkgPath) ==
    [kind |-> "header", pkg |-> pkgPath, index |-> 0, start |-> <<>>]
\* fmt.Printf("%s:%d:%d check\n", ...)
CheckLine(c) ==
    [kind |-> "check", pkg |-> c.Package, index |-> 0, start |-> <<c.Pos>>]
\* fmt.Println(e) for the diagnostic at index i of errs
ErrorLine(e, i) ==
    [kind |-> "error", pkg |-> "", index |-> i, start |-> Error(e).at]

\* The package lists main runs on
MainPkgs == {<<"a">>, <<"b">>, <<"a", "b">>, <<"b", "a">>}

\* main from findTaggedCalls' return to the start of the printing loop:
\* checkCalls on the calls, printed is all false.  A panic of checkCalls
\* ends the program
MainCheckCalls ==
    /\ phase = "idle"
    /\ \E ps \in MainPkgs, v \in BOOLEAN :
        \E cs \in CallLists({ps[i] : i \in 1..Len(ps)}) :
         \E r \in {checkCalls([DBInfo |-> TestDB, Imports |-> NoImports], cs)} :
           /\ phase' = "main"
           /\ state' = [DBInfo |-> TestDB, Imports |-> NoImports]
           /\ fns' = cs
           /\ errs' = r.errs
           /\ panicked' = r.panic
           /\ pkgs' = [i \in 1..Len(ps) |-> Package(ps[i], <<>>)]
           /\ flagVerbose' = v
           /\ printed' = [i \in 1..Len(r.errs) |-> FALSE]
           /\ pkgIdx' = IF r.panic THEN 0 ELSE 1
    /\ errIdx' = 0
    /\ printedPackage' = FALSE
    /\ out' = <<>>
    /\ UNCHANGED <<scopeIn, scopeOut>>
    /\ UNCHANGED <<stage, at, cm, consts, fileCalls, fileWarns, calls, warns>>
    /\ UNCHANGED scopeVars

\* The calls of package p among fns, in order
CallsOf(p) == SelectSeq(fns, LAMBDA c : c.Package = p)

\* The start of the loop body for a package: the verbose listing of its calls
PrintChecks ==
    /\ phase = "main"
    /\ pkgIdx \in 1..Len(pkgs)
    /\ errIdx = 0
    /\ IF flagVerbose /\ CallsOf(pkgs[pkgIdx].PkgPath) # <<>>
       THEN /\ out' = out \o <<HeaderLine(pkgs[pkgIdx].PkgPath)>>
                      \o [i \in 1..Len(CallsOf(pkgs[pkgIdx].PkgPath)) |->
                            CheckLine(CallsOf(pkgs[pkgIdx].PkgPath)[i])]
            /\ printedPackage' = TRUE
       ELSE UNCHANGED <<out, printedPackage>>
    /\ errIdx' = 1
    /\ UNCHANGED <<flagVerbose, printed, pkgIdx>>
    /\ UNCHANGED <<scopeVars, checkVars, extractVars>>

\* Whether the type switch prints diagnostic e under package p
printsUnder(e, p) ==
    IF e.type \in {"IdentErr", "TypeErr"} THEN e.Fn.Package = p ELSE TRUE

\* One iteration of the loop over errs
PrintErr ==
    /\ phase = "main"
    /\ pkgIdx \in 1..Len(pkgs)
    /\ errIdx \in 1..Len(errs)
    /\ IF ~printed[errIdx] /\ printsUnder(errs[errIdx], pkgs[pkgIdx].PkgPath)
       THEN /\ out' = out
                      \o (IF printedPackage THEN <<>>
                          ELSE <<HeaderLine(pkgs[pkgIdx].PkgPath)>>)
                      \o <<ErrorLine(errs[errIdx], errIdx)>>
            /\ printedPackage' = TRUE
            /\ printed' = [printed EXCEPT ![errIdx] = TRUE]
       ELSE UNCHANGED <<out, printedPackage, printed>>
    /\ errIdx' = errIdx + 1
    /\ UNCHANGED <<flagVerbose, pkgIdx>>
    /\ UNCHANGED <<scopeVars, checkVars, extractVars>>

\* The end of the loop body: on to the next package
NextPackage ==
    /\ phase = "main"
    /\ pkgIdx \in 1..Len(pkgs)
    /\ errIdx = Len(errs) + 1
    /\ pkgIdx' = pkgIdx + 1
    /\ errIdx' = 0
    /\ printedPackage' = FALSE
    /\ UNCHANGED <<flagVerbose, printed, out>>
    /\ UNCHANGED <<scopeVars, checkVars, extractVars>>

NextMain == MainCheckCalls \/ PrintChecks \/ PrintErr \/ NextPackage

SpecMain == Init /\ [][NextMain]_vars

\* ------------------------------------------------------------------------
\* Properties of the checker (under Spec)

\* The descriptor of `select <t> from <f>[ where <w>][ <g>]`
Select(t, f, w, g) ==
    [form |-> "select", target |-> t, from |-> f, where |-> w, tail |-> g]

\* checkCalls ran on a select
RanSelect == phase = "checkCalls" /\ fns[1].SQL.form = "select"

\* What checkCall returns for the select that ran with its select list emptied
WithoutTargets ==
    checkCall(state, fns[1],
              <<RawStmt([ParseSelectAt(fns[1].SQL, 0).stmt EXCEPT !.TargetList = <<>>])>>)

\* C1: for a select whose target list is a bare `*`, checkCalls returns
\* normally and the star contributes no diagnostic: the result is what the
\* FROM tables and the other clauses give; for `select * from users` that is
\* one IdentErr for users at offset 14 when the catalog has no users, and
\* nothing when it has.
C1_StarSelectReturns ==
    (RanSelect /\ fns[1].SQL.target = "*")
    => /\ panicked = WithoutTargets.panic
       /\ errs = WithoutTargets.errs
       /\ fns[1].SQL = Select("*", "users", "", "")
            => /\ ~panicked
               /\ errs = IF state.DBInfo = EmptyDB
                         THEN <<IdentErr(Unknown, "", "users", "", 14, fns[1])>>
                         ELSE <<>>

\* C1: checkCalls has run on `select * from users`
C1_StarSelectRan == RanSelect /\ fns[1].SQL = Select("*", "users", "", "")

\* C2: for a select of the unqualified column id from two tables that each
\* have a column id, checkCalls returns exactly one diagnostic: an IdentErr
\* of Kind Ambiguous for column id, no table, no schema, at the offset of the
\* reference (7).
C2_AmbiguousTarget ==
    (RanSelect /\ state.DBInfo = TestDB
        /\ fns[1].SQL \in {Select("id", "users, videos", "", ""),
                           Select("id", "users join videos on videos.id = users.id",
                                  "", "")})
    => /\ ~panicked
       /\ errs = <<IdentErr(Ambiguous, "", "", "id", 7, fns[1])>>

\* C2: checkCalls has returned from `select id from users, videos` with one
\* diagnostic for id at offset 7
C2_AmbiguousTargetRan ==
    /\ RanSelect /\ state.DBInfo = TestDB
    /\ fns[1].SQL = Select("id", "users, videos", "", "")
    /\ ~panicked /\ Len(errs) = 1
    /\ errs[1].type = "IdentErr" /\ errs[1].Column = "id" /\ errs[1].Location = 7

\* C3: for `select <t> from users where id = $1` (t the bare star or id) with
\* a first argument type T other than int, checkCalls returns exactly one
\* diagnostic: the TypeErr for column id with CallType T, DriverType int,
\* DBType integer, Parameter 1, and the offset of $1 as Location (31 after
\* `select *`).
C3_TypeMismatch ==
    (RanSelect /\ state.DBInfo = TestDB
        /\ fns[1].SQL \in {Select("*", "users", "id = $1", ""),
                           Select("id", "users", "id = $1", "")}
        /\ Len(fns[1].ArgTypes) >= 1 /\ fns[1].ArgTypes[1] # TInt)
    => /\ ~panicked
       /\ errs = <<TypeErr("", "", "id", fns[1].ArgTypes[1], TInt, "integer", 1,
                           IF fns[1].SQL.target = "*" THEN 31 ELSE 32, fns[1])>>

\* C3: checkCalls has run on `select * from users where id = $1` with [bool]
C3_TypeMismatchRan ==
    /\ RanSelect /\ state.DBInfo = TestDB
    /\ fns[1].SQL = Select("*", "users", "id = $1", "")
    /\ fns[1].ArgTypes = <<TBool>>

\* The column reference and the parameter of the expression typeCheck ran on
TypeCheckColumnRef ==
    IF TypeCheckExpr(fns[1].SQL).Rexpr.kind = "ColumnRef"
    THEN TypeCheckExpr(fns[1].SQL).Rexpr ELSE TypeCheckExpr(fns[1].SQL).Lexpr
TypeCheckParamRef ==
    IF TypeCheckExpr(fns[1].SQL).Rexpr.kind = "ParamRef"
    THEN TypeCheckExpr(fns[1].SQL).Rexpr ELSE TypeCheckExpr(fns[1].SQL).Lexpr

\* The qualifiers and the name of that column reference
TypeCheckQualifiers == refQualifiers(TypeCheckColumnRef.Fields)
TypeCheckColumnName == TypeCheckColumnRef.Fields[TypeCheckQualifiers.offset + 1].Str

\* What the column resolves to in the scope typeCheck was given
TypeCheckGet ==
    get(scopeIn, TypeCheckQualifiers.schema, TypeCheckQualifiers.table,
        TypeCheckColumnName)

\* typeCheck ran on a column that resolves Ok to a real column
TypeCheckResolved ==
    /\ phase = "typeCheck"
    /\ TypeCheckGet.ret = scopeRetOk
    /\ ~TypeCheckGet.col.isNil

\* typeCheck returned the generic error
HasLookupErr == \E k \in DOMAIN errs : errs[k].type = "error"

\* The import paths listed for driver type t whose last segment is its package
ImportsOfPackage(t) ==
    {k \in DOMAIN allImps(BasedOnType(state, t)) :
        pathBase(Trim(allImps(BasedOnType(state, t))[k], "\"")) = Split(t, ".")[1]}

\* C4: whenever the argument type of $n equals the driver type of the
\* resolved column, typeCheck returns no diagnostic of any kind, for dotted
\* driver types too.
C4_EqualTypesPass ==
    (TypeCheckResolved
        /\ TypeCheckParamRef.Number <= Len(fns[1].ArgTypes)
        /\ fns[1].ArgTypes[TypeCheckParamRef.Number] = TypeCheckGet.col.v.Type)
    => ~panicked /\ errs = <<>>

\* C4: typeCheck has run on a column of a dotted driver type against an
\* argument of that same type
C4_EqualDottedRan ==
    /\ TypeCheckResolved
    /\ TypeCheckParamRef.Number <= Len(fns[1].ArgTypes)
    /\ fns[1].ArgTypes[TypeCheckParamRef.Number] = TypeCheckGet.col.v.Type
    /\ TypeCheckGet.col.v.Type = TNullString

\* C5: for a dotted driver type pkg.TypeName, if an import path listed for
\* it has pkg as its last segment, typeCheck does not return the generic
\* lookup error: that error is returned only when no listed import path's
\* last segment is pkg.
C5_ImportAccepted ==
    (TypeCheckResolved
        /\ Len(Split(TypeCheckGet.col.v.Type, ".")) > 1
        /\ ImportsOfPackage(TypeCheckGet.col.v.Type) # {})
    => ~HasLookupErr

\* C5: typeCheck has run on a null.String column with the import
\* "github.com/volatiletech/null" listed for it and an argument for $n
C5_ImportListedRan ==
    /\ TypeCheckResolved
    /\ TypeCheckGet.col.v.Type = TNullString
    /\ ImportNull \in {allImps(BasedOnType(state, TNullString))[k] :
                          k \in DOMAIN allImps(BasedOnType(state, TNullString))}
    /\ TypeCheckParamRef.Number <= Len(fns[1].ArgTypes)

\* C6: when the column resolves Ok to a real column and $n has no argument
\* (n > |ArgTypes|), typeCheck returns the TypeErr with CallType "<none>",
\* the column's driver and db types and Parameter n, whatever the driver
\* type and the imports are.
C6_NoArgument ==
    (TypeCheckResolved /\ TypeCheckParamRef.Number > Len(fns[1].ArgTypes))
    => /\ ~panicked
       /\ errs = <<TypeErr(TypeCheckQualifiers.schema, TypeCheckQualifiers.table,
                           TypeCheckColumnName, <<"<none>">>,
                           TypeCheckGet.col.v.Type, TypeCheckGet.col.v.DBType,
                           TypeCheckParamRef.Number, TypeCheckParamRef.Location,
                           fns[1])>>

\* C6: typeCheck has returned the "<none>" TypeErr for a dotted driver type
\* that no import is listed for
C6_NoArgumentDotted ==
    /\ TypeCheckResolved
    /\ TypeCheckParamRef.Number > Len(fns[1].ArgTypes)
    /\ TypeCheckGet.col.v.Type = TNullString
    /\ state.Imports = NoImports
    /\ Len(errs) = 1 /\ errs[1].type = "TypeErr" /\ errs[1].CallType = <<"<none>">>

\* C10: when the check of a statement returns normally, the scope it was
\* given has the tables, aliases and output names it was entered with.
C10_ScopeRestored ==
    (phase \in {"checkCalls", "checkCallRecurse"} /\ ~panicked)
    => \A i \in DOMAIN scopeOut :
          /\ scopeOut[i].tables = scopeIn.tables
          /\ scopeOut[i].aliases = scopeIn.aliases
          /\ scopeOut[i].outputNames = scopeIn.outputNames

\* C10: the check of a select with a join and a lateral sub-select, entered
\* with two tables and an output name in scope, has returned normally with
\* diagnostics
C10_NestedSelectReturned ==
    /\ phase = "checkCallRecurse" /\ ~panicked
    /\ fns[1].SQL.form = "select"
    /\ fns[1].SQL.from = "users as u join lateral (select videos.id from videos where videos.id = u.id) as v on v.id = u.id"
    /\ Len(scopeIn.tables) = 2 /\ Len(scopeIn.outputNames) = 1
    /\ errs # <<>>
    /\ scopeOut = <<scopeIn>>

\* ------------------------------------------------------------------------
\* Properties of the Scope (under SpecScope)

\* The first entry whose alias is table or, when no alias is, the first entry
\* whose (schema, if given, and) name are; 0 when there is none
AliasFirstIndex(s, schema, table) ==
    LET Alias(i) == s.aliases[i] = table
        Name(i) == /\ schema = "" \/ s.tables[i].SchemaName = schema
                   /\ s.tables[i].Name = table
    IN IF \E i \in 1..Len(s.tables) : Alias(i)
       THEN CHOOSE i \in 1..Len(s.tables) : Alias(i) /\ \A j \in 1..(i - 1) : ~Alias(j)
       ELSE IF \E i \in 1..Len(s.tables) : Name(i)
       THEN CHOOSE i \in 1..Len(s.tables) : Name(i) /\ \A j \in 1..(i - 1) : ~Name(j)
       ELSE 0

\* C7: get with a table name resolves the table by alias first: the column
\* is searched in the first entry whose alias is the name; only when no alias
\* is the name, in the first entry matching by (schema and) name.
C7_AliasFirst ==
    (last.op = "get" /\ last.table # "")
    => IF AliasFirstIndex(scope, last.schema, last.table) = 0
       THEN last.ret = scopeRetUnknown
       ELSE /\ last.col = firstColumn(
                    scope.tables[AliasFirstIndex(scope, last.schema, last.table)],
                    last.column)
            /\ last.ret = IF last.col.isNil THEN scopeRetUnknown ELSE scopeRetOk

\* C7: get has looked up x.col in the scope [x aliased y, z aliased x]
C7_ShadowedLookup ==
    /\ last.op = "get" /\ last.schema = "" /\ last.table = "x" /\ last.column = "col"
    /\ Len(scope.tables) = 2
    /\ scope.tables[1].Name = "x" /\ scope.aliases[1] = "y"
    /\ scope.tables[2].Name = "z" /\ scope.aliases[2] = "x"

\* C8: get and has with a table name return Ok or Unknown, never Ambiguous.
C8_QualifiedNeverAmbiguous ==
    (last.op \in {"get", "has"} /\ last.table # "")
    => last.ret \in {scopeRetOk, scopeRetUnknown}

\* C8: get has looked up y.id where two entries have the alias y and the
\* first of them has two columns named id
C8_DuplicatesLookedUp ==
    /\ last.op = "get" /\ last.table = "y" /\ last.column = "id"
    /\ scope.aliases = <<"y", "y">>
    /\ Cardinality({k \in DOMAIN scope.tables[1].Columns :
                       scope.tables[1].Columns[k].Name = "id"}) = 2
    /\ last.ret = scopeRetOk

\* C9: the table and alias stacks have the same length, entry i has the
\* alias supplied when its table was pushed, and a failed pushTable leaves
\* both stacks as they were.
C9_StacksAligned ==
    /\ Len(scope.tables) = Len(scope.aliases)
    /\ Len(pushed) = Len(scope.tables)
    /\ \A i \in 1..Len(pushed) :
          /\ scope.aliases[i] = pushed[i].alias
          /\ scope.tables[i].Name = pushed[i].name
    /\ (last.op = "pushTable" /\ ~last.ok)
          => scope.tables = last.tables /\ scope.aliases = last.aliases

\* C9: a pushTable has failed on a clone that holds a table under an alias
C9_FailedPushOnClone ==
    /\ isClone
    /\ last.op = "pushTable" /\ ~last.ok
    /\ Len(scope.tables) = 1
    /\ scope.tables[1].Name = "x" /\ scope.aliases[1] = "y"

\* The columns named column of the tables in scope, in stack order
TableHits(s, column) ==
    SelectSeq(allColumns(s.tables), LAMBDA c : c.Name = column)

\* The output names called column, in stack order
OutputHits(s, column) ==
    SelectSeq(s.outputNames, LAMBDA o : o.name = column)

\* C27: get without a table name consults the output names only when no
\* table in scope has a column of the name: two such columns give (nil,
\* Ambiguous) whatever the output names; exactly one gives that table's
\* column and Ok, even with an output name of the same text on the stack;
\* none gives the column of the first matching output name and Ok, or
\* (nil, Unknown) when no output name matches.
C27_TablesBeforeOutputNames ==
    (last.op = "get" /\ last.table = "")
    => IF Len(TableHits(scope, last.column)) >= 2
       THEN last.col = NilCol /\ last.ret = scopeRetAmbiguous
       ELSE IF Len(TableHits(scope, last.column)) = 1
       THEN /\ last.col = PtrCol(TableHits(scope, last.column)[1])
            /\ last.ret = scopeRetOk
       ELSE IF OutputHits(scope, last.column) # <<>>
       THEN /\ last.col = OutputHits(scope, last.column)[1].col
            /\ last.ret = scopeRetOk
       ELSE last.col = NilCol /\ last.ret = scopeRetUnknown

\* C27: get has looked up col where one table in scope has the column col
\* and an output name col with no column is on the stack; it returned no
\* column
C27_OutputNameShadowsColumn ==
    /\ last.op = "get" /\ last.table = "" /\ last.column = "col"
    /\ Len(TableHits(scope, "col")) = 1
    /\ OutputHits(scope, "col") # <<>>
    /\ OutputHits(scope, "col")[1].col = NilCol
    /\ last.col = NilCol /\ last.ret = scopeRetOk

\* ------------------------------------------------------------------------
\* Properties of checkCalls on lists of calls (under Spec)

\* The diagnostics of each call of cs checked on its own, one after another
RECURSIVE EachAlone(_, _)
EachAlone(st, cs) ==
    IF cs = <<>> THEN <<>>
    ELSE checkCalls(st, <<Head(cs)>>).errs \o EachAlone(st, Tail(cs))

\* C15: checkCalls checks each call on its own: it panics exactly when the
\* check of one of the calls alone panics, and otherwise returns the
\* diagnostics of the calls checked alone, concatenated in list order; a
\* call whose SQL fails to parse contributes exactly one ParseError that
\* carries the call.
C15_CallsIndependent ==
    phase = "checkCallList"
    => /\ panicked = (\E i \in 1..Len(fns) : checkCalls(state, <<fns[i]>>).panic)
       /\ ~panicked
          => /\ errs = EachAlone(state, fns)
             /\ \A i \in 1..Len(fns) :
                   Parse(fns[i].SQL).err
                   => checkCalls(state, <<fns[i]>>).errs = <<ParseError(fns[i])>>

\* C15: checkCalls returned from a list whose first call fails to parse and
\* whose second call has diagnostics
C15_ParseErrorThenErrors ==
    /\ phase = "checkCallList"
    /\ ~panicked
    /\ Len(fns) = 2
    /\ Parse(fns[1].SQL).err
    /\ checkCalls(state, <<fns[2]>>).errs # <<>>
    /\ ~Parse(fns[2].SQL).err

\* checkCalls has returned from the one select that names its constant 't'
\* hello and has the given tail
CheckedHelloSelect(tail) ==
    /\ phase = "checkCalls"
    /\ ~panicked
    /\ fns[1].SQL.form = "select"
    /\ fns[1].SQL.target = "'t' as hello"
    /\ fns[1].SQL.tail = tail

\* C17: the output name a select list gives to an expression is in scope
\* in HAVING as it is in ORDER BY: the reference to hello in either clause
\* of a select with the target 't' as hello, hello being no column of a
\* table in scope, yields no identifier diagnostic.
C17_HavingSeesOutputNames ==
    \A tail \in {"order by hello", "having hello > 5"} :
        CheckedHelloSelect(tail)
        => \A i \in 1..Len(errs) :
              ~(errs[i].type = "IdentErr" /\ errs[i].Column = "hello")

\* C17: checkCalls returned from select 't' as hello from users having
\* hello > 5 on the catalog of the tests
C17_HavingAlias ==
    /\ CheckedHelloSelect("having hello > 5")
    /\ fns[1].SQL.from = "users"
    /\ fns[1].SQL.where = ""
    /\ state.DBInfo = TestDB

\* C20: every diagnostic checkCalls returns carries one of the calls it
\* was given, and its Error() string begins with the position of that
\* call.
C20_DiagnosticsCarryCall ==
    (phase \in {"checkCalls", "checkCallList"} /\ ~panicked)
    => \A i \in 1..Len(errs) :
          \E j \in 1..Len(fns) :
              /\ errs[i].type \in {"IdentErr", "TypeErr", "ParseError"}
              /\ errs[i].Fn = fns[j]
              /\ Error(errs[i]).at = <<fns[j].Pos>>

\* C20: checkCalls returned "failed to lookup package for driver type"
\* from a list of two calls
C20_LookupError ==
    /\ phase = "checkCallList"
    /\ ~panicked
    /\ Len(fns) = 2
    /\ \E i \in 1..Len(errs) : errs[i].type = "error"

\* The scope of the select of call fn once its FROM clause is processed
OuterScope(st, fn) ==
    fromLoop(st, fn, NewScope(st.DBInfo), ParseSelectAt(fn.SQL, 0).stmt.FromClause).scope

\* The sub-links that are targets of the select list of select statement sel
SubLinkTargets(sel) ==
    {sel.TargetList[i].Val : i \in {j \in 1..Len(sel.TargetList) :
                                      sel.TargetList[j].Val.kind = "SubLink"}}

\* checkCalls has returned from a query of TestBugNestSelect's shape, on its
\* catalog and with its argument types
CheckedNestSelect ==
    /\ phase = "checkCalls"
    /\ ~panicked
    /\ fns[1].SQL \in NestSelectSQLs
    /\ fns[1].ArgTypes = <<TInt>>
    /\ state.DBInfo = TagVideosDB

\* C21: the query of TestBugNestSelect has no diagnostics, and the
\* sub-select in a select list is checked against the scope the outer FROM
\* has built: its diagnostics on that scope are among those checkCalls
\* returns, and its check leaves that scope as it found it.
C21_SubLinkChecked ==
    CheckedNestSelect
    => /\ fns[1].SQL.target = "tv.tag_id, (select count(tag_videos.video_id) from tag_videos where tag_videos.tag_id = tv.tag_id)"
          => errs = <<>>
       /\ \A sub \in SubLinkTargets(ParseSelectAt(fns[1].SQL, 0).stmt) :
             \E r \in {checkCallRecurse(state, fns[1], OuterScope(state, fns[1]), sub)} :
                /\ ~r.panic
                /\ r.scope = OuterScope(state, fns[1])
                /\ \A i \in 1..Len(r.errs) : \E j \in 1..Len(errs) : errs[j] = r.errs[i]

\* C21: checkCalls returned from the query of TestBugNestSelect with the
\* alias xx, which no FROM declares, inside the sub-select
C21_NestSelectUnknownAlias ==
    /\ CheckedNestSelect
    /\ fns[1].SQL.target = "tv.tag_id, (select count(tag_videos.video_id) from tag_videos where tag_videos.tag_id = xx.tag_id)"
    /\ errs = <<>>

\* The FROM clauses `users as u join [lateral] (select videos.id from
\* videos where videos.id = u.id) as v on v.id = u.id`
LateralFrom ==
    "users as u join lateral (select videos.id from videos where videos.id = u.id) as v on v.id = u.id"
PlainSubselectFrom ==
    "users as u join (select videos.id from videos where videos.id = u.id) as v on v.id = u.id"

\* checkCalls has returned from a select over FROM clause `from`, on the
\* catalog of the tests
CheckedFrom(from) ==
    /\ phase = "checkCalls"
    /\ ~panicked
    /\ fns[1].SQL.form = "select"
    /\ fns[1].SQL.from = from
    /\ state.DBInfo = TestDB

\* The scope with users pushed under the alias u: the parent scope of the
\* sub-select of either FROM clause
ParentScope == pushTable(NewScope(TestDB), "", "users", "u").scope

\* The sub-select item of either FROM clause of call fn
SubselectItem(fn) == ParseSelectAt(fn.SQL, 0).stmt.FromClause[1].Rarg

\* The FROM worklist of call fn on a new scope
FromResult(st, fn) ==
    fromLoop(st, fn, NewScope(st.DBInfo), ParseSelectAt(fn.SQL, 0).stmt.FromClause)

\* C22: a lateral sub-select in FROM is checked on a clone of the parent
\* scope, where the parent's table u resolves; the check leaves the parent
\* as it was, and afterwards the parent has gained exactly the pseudo-table
\* v with the sub-select's output column id.  A sub-select that is not
\* lateral is checked in a new scope, where u does not resolve.
C22_LateralOnClone ==
    /\ CheckedFrom(LateralFrom)
       => /\ checkSelect(state, fns[1], clone(ParentScope),
                         SubselectItem(fns[1]).Subquery).errs = <<>>
          /\ FromResult(state, fns[1]).errs = <<>>
          /\ FromResult(state, fns[1]).scope
               = [ParentScope EXCEPT
                    !.tables = Append(@, Table("", "v", <<Column("id", TInt, "integer")>>)),
                    !.aliases = Append(@, "v")]
          /\ (fns[1].SQL.target = "u.id" /\ fns[1].SQL.where = "" /\ fns[1].SQL.tail = "")
             => errs = <<>>
    /\ CheckedFrom(PlainSubselectFrom)
       => /\ FromResult(state, fns[1]).errs
               = <<IdentErr(Unknown, "", "u", "id", 7 + TargetFrag(fns[1].SQL.target, 7).len + 6 + 64,
                          fns[1])>>
          /\ FromResult(state, fns[1]).scope
               = [ParentScope EXCEPT
                    !.tables = Append(@, Table("", "v", <<Column("id", TInt, "integer")>>)),
                    !.aliases = Append(@, "v")]

\* C22: checkCalls returned from select u.id over the lateral FROM clause
C22_LateralChecked ==
    /\ CheckedFrom(LateralFrom)
    /\ fns[1].SQL.target = "u.id"
    /\ fns[1].SQL.where = ""
    /\ FromResult(state, fns[1]).scope.aliases = <<"u", "v">>

\* checkCalls has returned from an update statement
CheckedUpdate ==
    /\ phase = "checkCalls"
    /\ ~panicked
    /\ fns[1].SQL.form = "update"

\* The diagnostic of the relation rel of a statement of call fn: the table
\* error when the catalog has no such table
RelationErrs(info, fn, rel) ==
    IF pushTableIndex(info, rel.Schemaname, rel.Relname) = 0
    THEN <<IdentErr(Unknown, rel.Schemaname, rel.Relname, "", rel.Location, fn)>>
    ELSE <<>>

\* The scope an update's assignments are checked in: the relation pushed on
\* a new scope
RelationScope(info, rel) ==
    pushTable(NewScope(info), rel.Schemaname, rel.Relname, rel.Alias).scope

\* The diagnostics of the assignments `items` in order, in scope sc: for
\* each the column error of a target that does not resolve, followed, when
\* withValues, by the diagnostics of the assigned expression
RECURSIVE AssignmentErrs(_, _, _, _, _)
AssignmentErrs(st, fn, sc, items, withValues) ==
    IF items = <<>> THEN <<>>
    ELSE (IF has(sc, "", "", Head(items).Name) # scopeRetOk
          THEN <<IdentErr(Unknown, "", "", Head(items).Name, Head(items).Location, fn)>>
          ELSE <<>>)
         \o (IF withValues THEN checkCallRecurse(st, fn, sc, Head(items).Val).errs
             ELSE <<>>)
         \o AssignmentErrs(st, fn, sc, Tail(items), withValues)

\* The diagnostics of update statement u of call fn: the table error, the
\* diagnostics of the assignments, the diagnostics of the WHERE clause
UpdateErrs(st, fn, u, withValues) ==
    RelationErrs(st.DBInfo, fn, u.Relation)
    \o AssignmentErrs(st, fn, RelationScope(st.DBInfo, u.Relation), u.TargetList,
                      withValues)
    \o checkCallRecurse(st, fn, RelationScope(st.DBInfo, u.Relation), u.WhereClause).errs

\* C23 as stated: the diagnostics of an update are the table error iff the
\* table is not in the catalog, then per assignment in order the column
\* error of its target iff the target does not resolve, then the
\* diagnostics of the WHERE clause, and nothing else.
C23_UpdateErrsAsStated ==
    CheckedUpdate => errs = UpdateErrs(state, fns[1], ParseUpdate(fns[1].SQL), FALSE)

\* C23, amended: as stated, with the diagnostics of each assigned
\* expression following the column error of its target; update users set
\* name = $1 has no diagnostics on the catalog of the tests whatever the
\* argument types are, and on the empty catalog exactly the table error
\* followed by the column error.
C23_UpdateErrs ==
    CheckedUpdate
    => /\ errs = UpdateErrs(state, fns[1], ParseUpdate(fns[1].SQL), TRUE)
       /\ (fns[1].SQL = [form |-> "update", rel |-> "users", set |-> "name = $1",
                         where |-> ""])
          => errs = IF state.DBInfo = TestDB THEN <<>>
                    ELSE <<IdentErr(Unknown, "", "users", "", 7, fns[1]),
                           IdentErr(Unknown, "", "", "name", 17, fns[1])>>

\* C23: checkCalls returned from update users set nope = id where id = $1
\* on the empty catalog
C23_UpdateUnknownEverywhere ==
    /\ CheckedUpdate
    /\ fns[1].SQL = [form |-> "update", rel |-> "users", set |-> "nope = id",
                     where |-> "id = $1"]
    /\ state.DBInfo = EmptyDB
    /\ Len(errs) = 4

\* The select of the test GroupHaving with the given select list
GroupHavingSQL(target) ==
    [form |-> "select", target |-> target, from |-> "users as u", where |-> "",
     tail |-> "group by u.id having u.id > 5"]

\* checkCalls was called with the one select of GroupHaving on the empty catalog
CheckedGroupHaving(target) ==
    /\ phase = "checkCalls"
    /\ state.DBInfo = EmptyDB
    /\ fns[1].SQL = GroupHavingSQL(target)

\* C24: the clauses of a select are checked, and their diagnostics
\* appended, in the order FROM, WHERE, HAVING, select list, GROUP BY,
\* ORDER BY: on the empty catalog select * from users as u group by u.id
\* having u.id > 5 yields the table error, then the HAVING reference
\* (offset 46), then the GROUP BY reference (offset 34); and the same
\* select of id yields the table error, the HAVING reference, the
\* diagnostic of the select list and then the GROUP BY reference.
C24_ClauseOrder ==
    /\ CheckedGroupHaving("*")
       => /\ ~panicked
          /\ errs = <<IdentErr(Unknown, "", "users", "", 14, fns[1]),
                      IdentErr(Unknown, "", "u", "id", 46, fns[1]),
                      IdentErr(Unknown, "", "u", "id", 34, fns[1])>>
    /\ CheckedGroupHaving("id")
       => /\ ~panicked
          /\ errs = <<IdentErr(Unknown, "", "users", "", 15, fns[1]),
                      IdentErr(Unknown, "", "u", "id", 47, fns[1]),
                      IdentErr(Unknown, "", "", "id", 7, fns[1]),
                      IdentErr(Unknown, "", "u", "id", 35, fns[1])>>

\* C24: checkCalls was called with select * from users as u group by u.id
\* having u.id > 5 on the empty catalog and did not return
C24_GroupHavingStar ==
    CheckedGroupHaving("*") /\ panicked

\* The operands of a join in the order left side, right side, condition,
\* the joins among them flattened the same way
RECURSIVE JoinOrder(_)
JoinOrder(item) ==
    IF item.kind = "JoinExpr"
    THEN JoinOrder(item.Larg) \o JoinOrder(item.Rarg) \o <<item.Quals>>
    ELSE <<item>>

\* The worklist that pops the items of s first to last
PopInOrder(s) == [i \in 1..Len(s) |-> s[Len(s) + 1 - i]]

\* checkCalls has returned from the one select of id over the given FROM
CheckedJoin(from) ==
    /\ phase = "checkCalls"
    /\ ~panicked
    /\ fns[1].SQL = [form |-> "select", target |-> "id", from |-> from,
                     where |-> "", tail |-> ""]

\* The diagnostics of the FROM worklist over the one worklist given
FromErrs(st, fn, stack) == fromLoop(st, fn, NewScope(st.DBInfo), stack).errs

\* C25: the FROM worklist processes a join, at any depth, as its left
\* side, then its right side, then its condition: its result on a join is
\* its result on the flattened operands in that order. On the empty
\* catalog users join videos on A join comments on B yields the
\* diagnostics of users, videos, the references of A, comments, the
\* references of B, in that order; and on the catalog of the tests a
\* reference to comments in A is unknown, since comments is pushed only
\* after A is checked, while every reference of B resolves.
C25_JoinOrder ==
    /\ \A from \in Froms :
          (CheckedJoin(from) /\ from # ""
             /\ FromFrag(from, 15).items[1].kind = "JoinExpr")
          => fromLoop(state, fns[1], NewScope(state.DBInfo), FromFrag(from, 15).items)
             = fromLoop(state, fns[1], NewScope(state.DBInfo),
                        PopInOrder(JoinOrder(FromFrag(from, 15).items[1])))
    /\ (CheckedJoin("users join videos on videos.id = users.id join comments on comments.id = videos.id")
        /\ state.DBInfo = EmptyDB)
       => errs = <<IdentErr(Unknown, "", "users", "", 15, fns[1]),
                   IdentErr(Unknown, "", "videos", "", 26, fns[1]),
                   IdentErr(Unknown, "", "videos", "id", 36, fns[1]),
                   IdentErr(Unknown, "", "users", "id", 48, fns[1]),
                   IdentErr(Unknown, "", "comments", "", 62, fns[1]),
                   IdentErr(Unknown, "", "comments", "id", 74, fns[1]),
                   IdentErr(Unknown, "", "videos", "id", 88, fns[1]),
                   IdentErr(Unknown, "", "", "id", 7, fns[1])>>
    /\ (CheckedJoin("users join videos on comments.id = users.id join comments on comments.id = videos.id")
        /\ state.DBInfo = TestDB)
       => FromErrs(state, fns[1], ParseSelectAt(fns[1].SQL, 0).stmt.FromClause)
          = <<IdentErr(Unknown, "", "comments", "id", 36, fns[1])>>

\* C25: checkCalls returned from select id from users join videos on
\* videos.id = users.id join comments on comments.id = videos.id on the
\* empty catalog, with the diagnostics of three tables, four references
\* and the select list
C25_NestedJoinChecked ==
    /\ CheckedJoin("users join videos on videos.id = users.id join comments on comments.id = videos.id")
    /\ state.DBInfo = EmptyDB
    /\ Len(errs) = 8

\* The column references of a select-list expression that are reached
\* without entering a sub-select: the expression itself, or those nested
\* in function calls and in binary and boolean expressions
RECURSIVE ColumnRefsIn(_)
ColumnRefsIn(n) ==
    CASE n.kind = "ColumnRef" -> {n}
      [] n.kind \in {"FuncCall", "BoolExpr"} ->
           UNION {ColumnRefsIn(n.Args[i]) : i \in 1..Len(n.Args)}
      [] n.kind = "A_Expr" -> ColumnRefsIn(n.Lexpr) \cup ColumnRefsIn(n.Rexpr)
      [] OTHER -> {}

\* The references to a named column in the select list of sel
TargetColumnRefs(sel) ==
    {c \in UNION {ColumnRefsIn(sel.TargetList[i].Val) : i \in 1..Len(sel.TargetList)} :
        c.Fields[Len(c.Fields)].kind = "String"}

\* What scope s returns for column reference c
Resolve(s, c) ==
    get(s,
        IF Len(c.Fields) >= 3 THEN c.Fields[Len(c.Fields) - 2].Str ELSE "",
        IF Len(c.Fields) >= 2 THEN c.Fields[Len(c.Fields) - 1].Str ELSE "",
        c.Fields[Len(c.Fields)].Str).ret

\* C28: every column reference in the select list of a select, a bare
\* target or one nested in a function call or an expression of a target,
\* that does not resolve Ok in the scope built from the FROM clause has an
\* identifier diagnostic at its offset.
C28_TargetRefsReported ==
    (phase = "checkCalls" /\ ~panicked /\ fns[1].SQL.form = "select")
    => \A c \in TargetColumnRefs(ParseSelectAt(fns[1].SQL, 0).stmt) :
          Resolve(OuterScope(state, fns[1]), c) # scopeRetOk
          => \E j \in 1..Len(errs) :
                /\ errs[j].type = "IdentErr"
                /\ errs[j].Column = c.Fields[Len(c.Fields)].Str
                /\ errs[j].Location = c.Location

\* C28: checkCalls returned from select length(name) from comments on the
\* catalog of the tests, where comments has no column name, with no
\* diagnostic
C28_UnknownInFuncCall ==
    /\ phase = "checkCalls"
    /\ ~panicked
    /\ fns[1].SQL = [form |-> "select", target |-> "length(name)", from |-> "comments",
                     where |-> "", tail |-> ""]
    /\ state.DBInfo = TestDB
    /\ errs = <<>>

\* The FROM clause `users as u, lateral (select videos.id from videos
\* where videos.id = u.id) as v`
CommaLateralFrom ==
    "users as u, lateral (select videos.id from videos where videos.id = u.id) as v"

\* checkCalls has returned from select u.id over FROM clause `from` alone,
\* on the catalog of the tests
CheckedLateral(from) ==
    /\ CheckedFrom(from)
    /\ fns[1].SQL.target = "u.id"
    /\ fns[1].SQL.where = ""
    /\ fns[1].SQL.tail = ""

\* C29: the child scope of a lateral sub-select holds the tables of every
\* FROM item that precedes it in the text, whether the items are combined
\* by JOIN or separated by commas: in select u.id from users as u [join |
\* ,] lateral (select videos.id from videos where videos.id = u.id) as v
\* the reference u.id inside the sub-select resolves, the FROM clause and
\* the statement have no diagnostic, and the scope after FROM holds u and
\* the pseudo-table v.
C29_LateralSeesPrecedingItems ==
    \A from \in {LateralFrom, CommaLateralFrom} :
        CheckedLateral(from)
        => /\ FromResult(state, fns[1]).errs = <<>>
           /\ errs = <<>>
           /\ FromResult(state, fns[1]).scope.aliases \in {<<"u", "v">>, <<"v", "u">>}

\* C29: checkCalls returned from the select over the comma-separated FROM
\* clause with an Unknown diagnostic for the u.id of the sub-select
C29_CommaLateralUnknown ==
    /\ CheckedLateral(CommaLateralFrom)
    /\ errs = <<IdentErr(Unknown, "", "u", "id", 85, fns[1])>>
    /\ FromResult(state, fns[1]).scope.aliases = <<"v", "u">>

\* ------------------------------------------------------------------------
\* Properties of the extractor (under SpecExtract)

\* The run was on the single file f.go of descriptor d and has returned
RanFile(d) ==
    stage = "done" /\ pkgs = <<Package("a", <<File("f.go", d)>>)>>

\* The descriptor of a file with the declarations `tags` tagged and the one
\* statement `form` under comment c
OneStmt(tags, form, c) ==
    [tags |-> tags, stmts |-> <<[form |-> form, comment |-> c]>>]

\* The call expressions inside a node, itself included
RECURSIVE CallExprsIn(_)
CallExprsIn(node) ==
    (IF node.kind = "CallExpr" THEN {node} ELSE {})
    \cup UNION {CallExprsIn(children(node)[i]) : i \in 1..Len(children(node))}

\* The whitelisted call expressions at the position of Call c, in the file
\* of its package
CallSitesOf(c) ==
    UNION { UNION { UNION { {n \in CallExprsIn(pkgs[p].Syntax[f].Nodes[k]) :
                               /\ getSQLFunction(n).fn # <<>>
                               /\ Position(pkgs[p].Syntax[f].Name, n) = c.Pos} :
                            k \in 1..Len(pkgs[p].Syntax[f].Nodes) } :
                    f \in 1..Len(pkgs[p].Syntax) } :
            p \in {q \in 1..Len(pkgs) : pkgs[q].PkgPath = c.Package} }

\* The 0-based position of the SQL argument of whitelisted call expression n
SQLOffset(n) == IF getSQLFunction(n).fn[1].HasContext THEN 1 ELSE 0

\* C11: every Call findTaggedCalls returns, from tagCall or from the
\* re-scan, lists in ArgTypes the static types of exactly the arguments of
\* its call site that follow the SQL argument of the whitelisted function
\* (argument 0, argument 1 when the function takes a context first).
C11_ArgTypesFollowSQL ==
    stage = "done"
    => \A i \in 1..Len(calls) :
          \A n \in CallSitesOf(calls[i]) :
              calls[i].ArgTypes = argTypesFrom(n.Args, SQLOffset(n) + 2)

\* C11: the run was on a file whose only statement is the untagged
\* db.Exec(two, four), with the constant four tagged
C11_ConstantAfterSQL ==
    /\ RanFile(OneStmt({"fourfive"}, "db.Exec(two, four)", ""))
    /\ Len(calls) = 1

\* The run was on one file of one package and has returned
SingleFileRun == stage = "done" /\ Len(pkgs) = 1 /\ Len(pkgs[1].Syntax) = 1

\* The tagged node is a statement that tagCall resolves to a whitelisted
\* call whose SQL argument is an identifier of a non-constant declaration
NotConstantSQL(file, node) ==
    /\ isTagged(node)
    /\ genNodeOf(node).kind \notin {"GenDecl", "ValueSpec"}
    /\ \E r \in {tagCall(file, node)} :
          /\ ~r.panic
          /\ r.warns # <<>>
          /\ r.warns[1].Err.text = "argument %q to sql function is not a constant"

\* The indices of the returned warnings positioned at pos
WarnsAt(pos) == {j \in 1..Len(warns) : warns[j].Pos = pos}

\* The indices of the returned calls on line l of the file
CallsOnLine(l) == {j \in 1..Len(calls) : calls[j].Pos.Line = l}

\* C12: a tagged statement that resolves to a whitelisted call whose SQL
\* argument is an identifier of a non-constant declaration leaves exactly
\* one warning at the tagged node, the one that says the argument is not a
\* constant, and no Call.
C12_OneWarningNoCall ==
    SingleFileRun
    => \A k \in 1..Len(pkgs[1].Syntax[1].Nodes) :
          NotConstantSQL(pkgs[1].Syntax[1].Name, pkgs[1].Syntax[1].Nodes[k])
          => /\ Cardinality(WarnsAt(Position(pkgs[1].Syntax[1].Name,
                                             pkgs[1].Syntax[1].Nodes[k]))) = 1
             /\ \A j \in WarnsAt(Position(pkgs[1].Syntax[1].Name,
                                          pkgs[1].Syntax[1].Nodes[k])) :
                   warns[j].Err.text = "argument %q to sql function is not a constant"
             /\ CallsOnLine(pkgs[1].Syntax[1].Nodes[k].Line) = {}

\* C12: the run was on a file whose only statement is the tagged
\* `if _, err = db.Exec(one, id); err != nil {}`, one being a var; it
\* returned no Call
C12_TaggedVarCall ==
    /\ RanFile(OneStmt({}, "if _, err = db.Exec(one, id); err != nil {}", "check"))
    /\ calls = <<>>
    /\ warns # <<>>


\* The tagged node is a declaration that is no const
TaggedNonConst(node) ==
    /\ isTagged(node)
    /\ genNodeOf(node).kind = "GenDecl"
    /\ genNodeOf(node).Tok # "const"

\* Call expression n is a whitelisted call whose SQL argument is an
\* identifier declared by a value-spec of declaration genDec
PassesAsSQL(n, genDec) ==
    /\ getSQLFunction(n).fn # <<>>
    /\ Len(n.Args) > SQLOffset(n)
    /\ n.Args[SQLOffset(n) + 1].kind = "Ident"
    /\ n.Args[SQLOffset(n) + 1].Obj # NoObj
    /\ n.Args[SQLOffset(n) + 1].Obj.Decl.kind = "ValueSpec"
    /\ \E i \in 1..Len(genDec.Specs) :
          n.Args[SQLOffset(n) + 1].Obj.Decl.id = genDec.Specs[i].id

\* The indices of the returned warnings on line l of the file
WarnsOnLine(l) == {j \in 1..Len(warns) : warns[j].Pos.Line = l}

\* What C13 says of the tagged declaration genDec of file `name` with the
\* nodes `nodes`
TaggedNonConstOutcome(name, nodes, genDec) ==
    /\ Cardinality(WarnsAt(Position(name, genDec))) = 1
    /\ \A j \in WarnsAt(Position(name, genDec)) :
          warns[j].Err = WarnText("tagged declaration was not a constant", "", 0)
    /\ \A j \in 1..Len(consts), i \in 1..Len(genDec.Specs) :
          consts[j].ValSpec # genDec.Specs[i].id
    /\ \A m \in 1..Len(nodes) :
          (/\ ~isTagged(nodes[m])
           /\ \E n \in CallExprsIn(nodes[m]) : PassesAsSQL(n, genDec))
          => /\ CallsOnLine(nodes[m].Line) = {}
             /\ WarnsOnLine(nodes[m].Line) = {}

CallsAt(pos) == {j \in 1..Len(calls) : calls[j].Pos = pos}

\* What C14 says of call expression n of file `name`, whose argument k
\* (1-based) is an identifier of the tagged constant c
RescanOutcome(name, n, k, c) ==
    IF getSQLFunction(n).fn # <<>>
    THEN /\ Cardinality(CallsAt(Position(name, n))) = 1
         /\ \A j \in CallsAt(Position(name, n)) :
               /\ calls[j].SQL = c.Val
               /\ calls[j].ArgTypes = argTypesFrom(n.Args, k + 1)
    ELSE /\ CallsAt(Position(name, n)) = {}
         /\ \E j \in WarnsAt(Position(name, n.Args[k])) :
               warns[j].Err = WarnText("tagged constant used in non-sql function", "", 0)

\* The call expressions of the untagged nodes of a file
UntaggedCallExprs(nodes) ==
    UNION {CallExprsIn(nodes[m]) : m \in {i \in 1..Len(nodes) : ~isTagged(nodes[i])}}

\* C14: in the re-scan, every untagged call expression with an identifier
\* of a tagged constant of the file (same name, same value-spec) at
\* argument k yields, when its callee is whitelisted, exactly one Call at
\* its position with the constant's value as SQL and the types of the
\* arguments after k as ArgTypes, and otherwise the warning "tagged
\* constant used in non-sql function" and no Call; a call expression that
\* only has an identifier of the name of a tagged constant declared by
\* another value-spec yields no Call.
C14_RescanCalls ==
    SingleFileRun
    => \A n \in UntaggedCallExprs(pkgs[1].Syntax[1].Nodes) :
          /\ \A k \in 1..Len(n.Args) :
                constOfArg(consts, n.Args[k]).c # 0
                => RescanOutcome(pkgs[1].Syntax[1].Name, n, k,
                                 consts[constOfArg(consts, n.Args[k]).c])
          /\ (/\ \A k \in 1..Len(n.Args) : constOfArg(consts, n.Args[k]).c = 0
              /\ \E k \in 1..Len(n.Args), j \in 1..Len(consts) :
                    n.Args[k].kind = "Ident" /\ n.Args[k].Name = consts[j].Name)
             => CallsAt(Position(pkgs[1].Syntax[1].Name, n)) = {}

\* C14: the run was on a file with the constants two and four tagged and
\* the untagged statement db.Exec(two, db.QueryRow(four, id)); it returned
\* the Call of the outer call expression only
C14_NestedCall ==
    /\ RanFile(OneStmt({"two", "fourfive"}, "db.Exec(two, db.QueryRow(four, id))", ""))
    /\ Len(calls) = 1

\* The diagnostics main gets for the calls cs, on the catalog of the tests
DiagnosticsOf(cs) == checkCalls([DBInfo |-> TestDB, Imports |-> NoImports], cs)

\* C16: what findTaggedCalls returns is fixed by its input.  The comment
\* map's order only changes the order of the lists before the sorts, so
\* the outcome is the same on every run exactly when the sort has one
\* possible result: the returned warnings are the only sorted arrangement
\* of themselves, and every sorted arrangement of the returned calls gives
\* the diagnostics of the returned one.
C16_SameOnEveryRun ==
    stage = "done"
    => /\ sortWarns(warns) = {warns}
       /\ \A cs \in sortCalls(calls) :
             /\ DiagnosticsOf(cs).panic = DiagnosticsOf(calls).panic
             /\ DiagnosticsOf(cs).errs = DiagnosticsOf(calls).errs

\* C16: the run was on a file whose only statement is the tagged
\* `if _, err = db.Exec(one, id); err != nil {}`; it returned the two
\* warnings of the tagged node with "failed to find either function or
\* constant" first
C16_TwoWarningsOneNode ==
    /\ RanFile(OneStmt({}, "if _, err = db.Exec(one, id); err != nil {}", "check"))
    /\ Len(warns) = 2
    /\ warns[1].Pos = warns[2].Pos
    /\ warns[1].Err.text = "failed to find either function or constant after sqlboiler:check tag"

\* The place of a package path or file name of the corpus in the order of
\* Go's strings
StringRank(s) ==
    CASE s = "a" -> 1 [] s = "b" -> 2 [] s = "f.go" -> 3 [] s = "g.go" -> 4

\* The sort keys of a Call and of a Warn
CallKey(c) ==
    <<StringRank(c.Package), StringRank(c.Pos.Filename), c.Pos.Line, c.Pos.Column>>
WarnKey(w) == <<StringRank(w.Pos.Filename), w.Pos.Line, w.Pos.Column>>

\* x <= y in the lexicographic order of tuples of numbers of one length
RECURSIVE LexLeq(_, _)
LexLeq(x, y) ==
    IF x = <<>> THEN TRUE
    ELSE IF Head(x) < Head(y) THEN TRUE
    ELSE IF Head(x) > Head(y) THEN FALSE
    ELSE LexLeq(Tail(x), Tail(y))

\* callLess is a strict weak order on the records of list cs
CallLessStrictWeak(cs) ==
    \A i, j, k \in 1..Len(cs) :
        /\ ~callLess(cs[i], cs[i])
        /\ callLess(cs[i], cs[j]) => ~callLess(cs[j], cs[i])
        /\ callLess(cs[i], cs[j]) /\ callLess(cs[j], cs[k]) => callLess(cs[i], cs[k])
        /\ (/\ ~callLess(cs[i], cs[j]) /\ ~callLess(cs[j], cs[i])
            /\ ~callLess(cs[j], cs[k]) /\ ~callLess(cs[k], cs[j]))
           => ~callLess(cs[i], cs[k]) /\ ~callLess(cs[k], cs[i])

\* warnLess is a strict weak order on the records of list ws
WarnLessStrictWeak(ws) ==
    \A i, j, k \in 1..Len(ws) :
        /\ ~warnLess(ws[i], ws[i])
        /\ warnLess(ws[i], ws[j]) => ~warnLess(ws[j], ws[i])
        /\ warnLess(ws[i], ws[j]) /\ warnLess(ws[j], ws[k]) => warnLess(ws[i], ws[k])
        /\ (/\ ~warnLess(ws[i], ws[j]) /\ ~warnLess(ws[j], ws[i])
            /\ ~warnLess(ws[j], ws[k]) /\ ~warnLess(ws[k], ws[j]))
           => ~warnLess(ws[i], ws[k]) /\ ~warnLess(ws[k], ws[i])

\* C18: the calls findTaggedCalls returns are in non-decreasing
\* lexicographic order of (Package, Filename, Line, Column) and the
\* warnings of (Filename, Line, Column), and the two comparators are
\* strict weak orders on them.
C18_SortedByPosition ==
    stage = "done"
    => /\ \A i, j \in 1..Len(calls) :
             i < j => LexLeq(CallKey(calls[i]), CallKey(calls[j]))
       /\ \A i, j \in 1..Len(warns) :
             i < j => LexLeq(WarnKey(warns[i]), WarnKey(warns[j]))
       /\ CallLessStrictWeak(calls)
       /\ WarnLessStrictWeak(warns)

\* C18: the run was on package b and then package a, each with a file
\* that has a Call; the Call of a is returned first.  The run also
\* returned warnings at different positions.
C18_LaterPackageFirst ==
    /\ stage = "done"
    /\ Len(pkgs) = 2
    /\ pkgs[1].PkgPath = "b"
    /\ pkgs[2].PkgPath = "a"
    /\ Len(calls) >= 2
    /\ calls[1].Package = "a"
    /\ calls[Len(calls)].Package = "b"
    /\ Len(warns) >= 2
    /\ warns[1].Pos # warns[Len(warns)].Pos

\* Whitelisted call expression n passes an identifier declared as a
\* constant by a value-spec as its SQL argument
PassesConstant(n) ==
    /\ Len(n.Args) > SQLOffset(n)
    /\ n.Args[SQLOffset(n) + 1].kind = "Ident"
    /\ n.Args[SQLOffset(n) + 1].Obj # NoObj
    /\ n.Args[SQLOffset(n) + 1].Obj.Kind = "const"
    /\ n.Args[SQLOffset(n) + 1].Obj.Decl.kind = "ValueSpec"

\* The compile-time string value of the identifier passed as SQL to n
PassedSQL(n) == StringVal(n.Args[SQLOffset(n) + 1].tv.Value).str

\* C26: the Call of a tagged whitelisted call whose SQL argument is an
\* identifier declared as a constant carries the compile-time string value
\* of that very constant, whatever the position of its name in the
\* declaring value-spec, and where the declaration is tagged too that
\* value is the one recorded for the constant: in a run with no tagged
\* declaration every Call has the value of the constant its call site
\* passes, and the run on the tagged db.Exec(five, id) with const four,
\* five tagged returns no Call with another SQL than the Val of the tagged
\* constant five.
C26_SQLOfPassedConstant ==
    /\ (SingleFileRun /\ consts = <<>>)
       => \A i \in 1..Len(calls) :
             \A n \in CallSitesOf(calls[i]) :
                 PassesConstant(n) => calls[i].SQL = PassedSQL(n)
    /\ RanFile(OneStmt({"fourfive"}, "db.Exec(five, id)", "check"))
       => \A i \in 1..Len(calls), j \in 1..Len(consts) :
             consts[j].Name = "five" => calls[i].SQL = consts[j].Val

\* C26: the run was on a file whose only statement is the tagged
\* db.Exec(five, id), five being the second name of const four, five, no
\* declaration tagged; it returned one Call
C26_SecondNamePassed ==
    /\ RanFile(OneStmt({}, "db.Exec(five, id)", "check"))
    /\ Len(calls) = 1
    /\ calls[1].SQL = SQLFour
    /\ SQLFour # SQLFive

\* The diagnostics main gets for the calls cs on the empty catalog
DiagnosticsOnEmpty(cs) == checkCalls([DBInfo |-> EmptyDB, Imports |-> NoImports], cs).errs

\* C30: each whitelisted call site yields at most one Call: no two of the
\* returned Calls are at the same position of the same package, so a
\* tagged call statement whose SQL argument is a tagged constant is not
\* recorded once by the descent from the tag and once more by the re-scan
\* for the constant, and checkCalls reports its diagnostics once.
C30_OneCallPerSite ==
    stage = "done"
    => /\ \A i, j \in 1..Len(calls) :
             (calls[i].Pos = calls[j].Pos /\ calls[i].Package = calls[j].Package)
             => i = j
       /\ RanFile(OneStmt({"two"}, "db.Exec(two, id)", "check"))
          => DiagnosticsOnEmpty(calls) = DiagnosticsOnEmpty(<<calls[1]>>)

\* C30: the run was on a file with the constant two tagged and the tagged
\* statement db.Exec(two, id); it returned the same Call twice, and on the
\* empty catalog every diagnostic of the Call is reported twice
C30_TaggedCallOfTaggedConstant ==
    /\ RanFile(OneStmt({"two"}, "db.Exec(two, id)", "check"))
    /\ Len(calls) = 2
    /\ calls[1] = calls[2]
    /\ DiagnosticsOnEmpty(<<calls[1]>>) # <<>>
    /\ DiagnosticsOnEmpty(calls)
         = DiagnosticsOnEmpty(<<calls[1]>>) \o DiagnosticsOnEmpty(<<calls[1]>>)

\* ------------------------------------------------------------------------
\* Properties of the printing loop of main (under SpecMain)

\* The loop over the packages has ended
MainDone == phase = "main" /\ pkgIdx = Len(pkgs) + 1

\* The lines of out that print the diagnostic at index i of errs
LinesOf(i) == {q \in 1..Len(out) : out[q].kind = "error" /\ out[q].index = i}

\* The group line q of out is printed in: the package of the last header
\* above it, "" when there is none
GroupOf(q) ==
    IF \E h \in 1..q : out[h].kind = "header"
    THEN out[CHOOSE h \in 1..q :
               /\ out[h].kind = "header"
               /\ \A g \in (h+1)..q : out[g].kind # "header"].pkg
    ELSE ""

\* The groups C19 lets diagnostic e be printed in: the package of its own
\* call, and for a diagnostic that is no identifier or type diagnostic the
\* group "other"
GroupsFor(e) ==
    IF e.type \in {"IdentErr", "TypeErr"} THEN {e.Fn.Package}
    ELSE IF e.type = "ParseError" THEN {e.Fn.Package, "other"}
    ELSE {"other"}

\* C19: when the printing loop has ended, every diagnostic of checkCalls
\* is printed exactly once; an identifier or type diagnostic is under the
\* header of the package of its call, and any other diagnostic is under
\* the header of the package of its call, if it has one, or in a group
\* "other", never under the header of another package.
C19_PrintedOnceInOwnGroup ==
    MainDone
    => \A i \in 1..Len(errs) :
          /\ Cardinality(LinesOf(i)) = 1
          /\ \A q \in LinesOf(i) : GroupOf(q) \in GroupsFor(errs[i])

\* C19: the loop has ended on the packages a and b, with a parse error of
\* a call of package b among the diagnostics
C19_ParseErrorOfSecondPackage ==
    /\ MainDone
    /\ pkgs = <<Package("a", <<>>), Package("b", <<>>)>>
    /\ \E i \in 1..Len(errs) :
          /\ errs[i].type = "ParseError"
          /\ errs[i].Fn.Package = "b"
          /\ LinesOf(i) # {}

=============================================================================
